---------------------------- MODULE Spec2Model ----------------------------
(***************************************************************************)
(* Model of the feature-tagging tools of tests/utils/features:             *)
(*   featcomposer.py    replace_old_runs (reconciliation of reruns)        *)
(*   featextractor.py   get_feature_dictionary (telemetry extraction)      *)
(*   state.py           State (snap-type resolution over a state.json)     *)
(*   query_features.py  Retriever (read-through cache over a backend)      *)
(* Each tool is a short-lived program of its own, so each has its own      *)
(* specification over its own variables: SpecReplace, SpecExtract,         *)
(* SpecRetriever.                                                          *)
(***************************************************************************)
EXTENDS Integers, Sequences, FiniteSets, TLC

VARIABLES
    \* ---- featcomposer.replace_old_runs
    filenames,   \* os.listdir(dir): the file names, in listing order
    content,     \* file name -> the parsed json of the file
    output,      \* output_dir: file name -> json written there
    rpc,         \* position of replace_old_runs: "reruns", "copy", "done", "error"
    ri,          \* index of the next element of the loop at rpc
    \* ---- featextractor.get_feature_dictionary
    state,        \* the State handed in: a state.json, or NoState
    setOrder,     \* the iteration order of this process's sets of strings
    journal,      \* the lines of log_file read so far
    feature_dict, \* the defaultdict(list): parent name -> list of features
    epc,          \* "reading", "done" or "error" (an exception left the function)
    eerr,         \* the exception that left get_feature_dictionary, or "none"
    \* ---- query_features.Retriever
    rkind,        \* the class of the instance: "mongo" or "dir"
    collection,   \* MongoRetriever: the documents of snapd.features, in find() order
    dirFiles,     \* DirRetriever: the files under self.dir, in listing order
    cache,        \* self.cache: timestamp -> {'systems': ..., 'all-features': ...}
    rcall,        \* the last call on the instance and what it gave the caller
    scans,        \* timestamp -> number of full scans the backend completed
    ncalls,       \* number of calls made on the instance
    \* ---- query_features queries and state.State, called once per run
    qcall,        \* the query made (dup, diff, ...): its arguments and result
    rescall       \* the State resolution made: its arguments and result

replaceVars == <<filenames, content, output, rpc, ri>>
extractVars == <<state, setOrder, journal, feature_dict, epc, eerr>>

retrieverVars == <<rkind, collection, dirFiles, cache, rcall, scans, ncalls>>

queryVars == <<qcall, rescall>>

vars == <<replaceVars, extractVars, retrieverVars, queryVars>>

\* the variables of a tool that is not running
ExtractIdle ==
    /\ state = <<>> /\ setOrder = <<>> /\ journal = <<>>
    /\ feature_dict = <<>> /\ epc = "idle" /\ eerr = "none"

ReplaceIdle ==
    /\ filenames = <<>> /\ content = <<>> /\ output = <<>>
    /\ rpc = "idle" /\ ri = 0

NoCall ==
    [op |-> "none", ts |-> "", system |-> "", systems |-> <<>>,
     err |-> "none", val |-> <<>>, backend |-> FALSE]

RetrieverIdle ==
    /\ rkind = "idle" /\ collection = <<>> /\ dirFiles = <<>> /\ cache = <<>>
    /\ rcall = NoCall /\ scans = <<>> /\ ncalls = 0

NoQuery == [op |-> "none"]

QueryIdle == qcall = NoQuery /\ rescall = NoQuery

---------------------------------------------------------------------------
\* Generic helpers on sequences

Range(s) == {s[i] : i \in DOMAIN s}

StartsWith(s, p) == Len(p) <= Len(s) /\ SubSeq(s, 1, Len(p)) = p

EndsWith(s, p) == Len(p) <= Len(s) /\ SubSeq(s, Len(s) - Len(p) + 1, Len(s)) = p

\* all orderings of a finite set, as sequences without repetition
Orderings(S) ==
    {s \in [1..Cardinality(S) -> S] : \A i, j \in DOMAIN s : i # j => s[i] # s[j]}

---------------------------------------------------------------------------
\* featcomposer.py: file names are sequences of characters; the extension
\* ".json" is kept as one element.

JSON == ".json"
DigitChars == <<"0", "1", "2", "3", "4", "5", "6", "7", "8", "9">>
IsDigit(c) == \E i \in DOMAIN DigitChars : DigitChars[i] = c
DigitVal(c) == (CHOOSE i \in DOMAIN DigitChars : DigitChars[i] = c) - 1

\* _remove_json_extension
RemoveJsonExtension(f) ==
    IF EndsWith(f, <<JSON>>) THEN SubSeq(f, 1, Len(f) - 1) ELSE f

\* position of the last "_" of s, 0 when there is none
LastUnderscore(s) ==
    IF \E i \in DOMAIN s : s[i] = "_"
    THEN CHOOSE i \in DOMAIN s : s[i] = "_" /\ \A j \in DOMAIN s : j > i => s[j] # "_"
    ELSE 0

\* x.split('_')[-1]
LastSegment(s) == SubSeq(s, LastUnderscore(s) + 1, Len(s))

\* str.isdigit(): non-empty and all digits
IsDigits(s) == Len(s) > 0 /\ \A i \in DOMAIN s : IsDigit(s[i])

RECURSIVE IntOf(_)
IntOf(s) == IF Len(s) = 0 THEN 0
            ELSE 10 * IntOf(SubSeq(s, 1, Len(s) - 1)) + DigitVal(s[Len(s)])

\* _get_name_without_run_number
GetNameWithoutRunNumber(f) ==
    LET n == RemoveJsonExtension(f)
        u == LastUnderscore(n)
    IN IF IsDigits(LastSegment(n))
       THEN (IF u = 0 THEN <<>> ELSE SubSeq(n, 1, u - 1))
       ELSE n

\* the sort key of reruns.sort: int(_remove_json_extension(x).split('_')[-1])
RunNumber(f) == IntOf(LastSegment(RemoveJsonExtension(f)))

\* list.sort(key=RunNumber): stable insertion
RECURSIVE InsertByRun(_, _)
InsertByRun(sorted, f) ==
    IF sorted = <<>> THEN <<f>>
    ELSE IF RunNumber(sorted[Len(sorted)]) <= RunNumber(f) THEN Append(sorted, f)
    ELSE Append(InsertByRun(SubSeq(sorted, 1, Len(sorted) - 1), f), sorted[Len(sorted)])

RECURSIVE SortByRun(_)
SortByRun(s) ==
    IF s = <<>> THEN <<>>
    ELSE InsertByRun(SortByRun(SubSeq(s, 1, Len(s) - 1)), s[Len(s)])

\* list.remove(x): drops the first element equal to x
RECURSIVE RemoveFirst(_, _)
RemoveFirst(s, x) ==
    IF s = <<>> THEN <<>>
    ELSE IF Head(s) = x THEN Tail(s)
    ELSE <<Head(s)>> \o RemoveFirst(Tail(s), x)

\* the loop "for rerun in reruns" of _get_original_and_rerun_list, from index i
RECURSIVE ScanNoOriginals(_, _, _, _, _)
ScanNoOriginals(reruns, originals, i, noOriginals, hasRerun) ==
    IF i > Len(reruns) THEN [no |-> noOriginals, has |-> hasRerun]
    ELSE LET bare == GetNameWithoutRunNumber(reruns[i])
         IN IF \E k \in DOMAIN noOriginals : StartsWith(noOriginals[k], bare)
            THEN ScanNoOriginals(reruns, originals, i + 1, noOriginals,
                                 hasRerun \cup {bare})
            ELSE IF ~ \E k \in DOMAIN originals : StartsWith(originals[k], bare)
            THEN ScanNoOriginals(reruns, originals, i + 1,
                                 Append(noOriginals, reruns[i]), hasRerun)
            ELSE ScanNoOriginals(reruns, originals, i + 1, noOriginals, hasRerun)

\* as _get_original_and_rerun_list without "reruns.remove(no_original)"
MoveNoOriginalsKeepingReruns(originals, reruns, noOriginals, hasRerun, k) ==
    <<originals, reruns>>

\* the loop "for no_original in no_originals", from index k
RECURSIVE MoveNoOriginals(_, _, _, _, _)
MoveNoOriginals(originals, reruns, noOriginals, hasRerun, k) ==
    IF k > Len(noOriginals) THEN <<originals, reruns>>
    ELSE LET f == noOriginals[k]
         IN MoveNoOriginals(
                IF GetNameWithoutRunNumber(f) \in hasRerun
                THEN Append(originals, f) ELSE originals,
                RemoveFirst(reruns, f), noOriginals, hasRerun, k + 1)

\* _get_original_and_rerun_list: <<originals, reruns>>
GetOriginalAndRerunList(files) ==
    LET isFirst(f) == EndsWith(RemoveJsonExtension(f), <<"_", "1">>)
        reruns0 == SelectSeq(files, LAMBDA f : ~ isFirst(f))
        originals0 ==
            SelectSeq(files, LAMBDA f :
                /\ isFirst(f)
                /\ \E k \in DOMAIN reruns0 :
                      /\ reruns0[k] # <<>>
                      /\ StartsWith(reruns0[k],
                            SubSeq(RemoveJsonExtension(f), 1,
                                   Len(RemoveJsonExtension(f)) - 2)))
        reruns1 == SortByRun(reruns0)
        scan == ScanNoOriginals(reruns1, originals0, 1, <<>>, {})
    IN MoveNoOriginals(originals0, reruns1, scan.no, scan.has, 1)

Originals == GetOriginalAndRerunList(filenames)[1]
Reruns == GetOriginalAndRerunList(filenames)[2]

\* SameTest without the comparison of the variants
SameTestAnyVariant(old_test, test) ==
    /\ old_test.task_name = test.task_name
    /\ old_test.suite = test.suite

\* the condition of line 145: same task_name, suite and variant
SameTest(old_test, test) ==
    /\ old_test.task_name = test.task_name
    /\ old_test.suite = test.suite
    /\ old_test.variant = test.variant

\* ReplaceOne that adds a test found in no old test
ReplaceOneOrAppend(old_tests, test) ==
    IF \E i \in DOMAIN old_tests : SameTest(old_tests[i], test)
    THEN LET i == CHOOSE i \in DOMAIN old_tests :
                    /\ SameTest(old_tests[i], test)
                    /\ \A j \in DOMAIN old_tests : j < i => ~ SameTest(old_tests[j], test)
         IN [old_tests EXCEPT ![i] = test]
    ELSE Append(old_tests, test)

\* the inner loop of _replace_tests: the first old test matching `test` is
\* cleared and takes every key and value of `test`
ReplaceOne(old_tests, test) ==
    IF \E i \in DOMAIN old_tests : SameTest(old_tests[i], test)
    THEN LET i == CHOOSE i \in DOMAIN old_tests :
                    /\ SameTest(old_tests[i], test)
                    /\ \A j \in DOMAIN old_tests : j < i => ~ SameTest(old_tests[j], test)
         IN [old_tests EXCEPT ![i] = test]
    ELSE old_tests

RECURSIVE ReplaceAll(_, _, _)
ReplaceAll(old_tests, new_tests, k) ==
    IF k > Len(new_tests) THEN old_tests
    ELSE ReplaceAll(ReplaceOne(old_tests, new_tests[k]), new_tests, k + 1)

\* _replace_tests(old_json_file, new_json_file), on the parsed files
ReplaceTests(old_json, new_json) ==
    [old_json EXCEPT !.tests = ReplaceAll(old_json.tests, new_json.tests, 1)]

\* the originals a rerun corresponds to (line 225)
OriginalsOf(rerun) ==
    SelectSeq(Originals, LAMBDA x : StartsWith(x, GetNameWithoutRunNumber(rerun)))

\* writing file `name` of output_dir
Write(out, name, json) ==
    [f \in DOMAIN out \cup {name} |-> IF f = name THEN json ELSE out[f]]

---------------------------------------------------------------------------
\* Inputs of replace_old_runs

MaxAttempt == 3     \* run attempts 1..MaxAttempt of the rerun system

SysA == <<"a">>     \* a system that was rerun
SysB == <<"b">>     \* a system that ran once

FileOf(sys, n) == sys \o <<"_", DigitChars[n + 1], JSON>>

TestKey(t) == <<t.suite, t.task_name, t.variant>>

\* (suite, task_name, variant): two variants of one task, and another task
K1 == <<"s", "t1", "">>
K2 == <<"s", "t1", "v">>
K3 == <<"s", "t2", "">>
OriginalKeys == <<K1, K2>>
RerunKeys == {K1, K2, K3}

\* the record of test k as composed in run attempt n; the first run also
\* recorded changes
TestOf(k, n) ==
    IF n = 1
    THEN [suite |-> k[1], task_name |-> k[2], variant |-> k[3], success |-> FALSE,
          cmds |-> <<n>>, changes |-> <<"c">>]
    ELSE [suite |-> k[1], task_name |-> k[2], variant |-> k[3], success |-> TRUE,
          cmds |-> <<n>>]

ReportOf(sys, keys, n) ==
    [system |-> sys, tests |-> [i \in DOMAIN keys |-> TestOf(keys[i], n)]]

\* the test lists a rerun file can hold: any of the keys, in the order of AllKeys
AllKeys == <<K1, K2, K3>>
RerunKeyLists == {SelectSeq(AllKeys, LAMBDA k : k \in S) : S \in SUBSET RerunKeys}

Reverse(s) == [i \in DOMAIN s |-> s[Len(s) + 1 - i]]

\* os.listdir gives the names in no particular order: by name, or backwards
Listings == LET byName == [n \in 1..MaxAttempt |-> FileOf(SysA, n)] \o <<FileOf(SysB, 1)>>
            IN {byName, Reverse(byName)}

InitReplace ==
    /\ filenames \in Listings
    /\ \E pick \in [2..MaxAttempt -> RerunKeyLists] :
          content = [f \in Range(filenames) |->
                        IF f = FileOf(SysB, 1) THEN ReportOf(SysB, <<K3>>, 1)
                        ELSE IF f = FileOf(SysA, 1) THEN ReportOf(SysA, OriginalKeys, 1)
                        ELSE ReportOf(SysA, pick[RunNumber(f)], RunNumber(f))]
    /\ output = <<>>
    /\ rpc = "reruns"
    /\ ri = 1
    /\ ExtractIdle
    /\ RetrieverIdle
    /\ QueryIdle

\* one iteration of "for rerun in reruns" (lines 223-233)
RerunStep ==
    /\ rpc = "reruns"
    /\ ri <= Len(Reruns)
    /\ LET rerun == Reruns[ri]
           result_name == GetNameWithoutRunNumber(rerun)
           original == OriginalsOf(rerun)
       IN IF Len(original) # 1
          THEN /\ rpc' = "error"
               /\ UNCHANGED <<output, ri>>
          ELSE /\ output' = Write(output, result_name \o <<JSON>>,
                                  ReplaceTests(content[original[1]], content[rerun]))
               /\ ri' = ri + 1
               /\ rpc' = rpc
    /\ UNCHANGED <<filenames, content>>
    /\ UNCHANGED <<extractVars, retrieverVars, queryVars>>

\* the loop over the reruns is finished
RerunsDone ==
    /\ rpc = "reruns"
    /\ ri > Len(Reruns)
    /\ rpc' = "copy"
    /\ ri' = 1
    /\ UNCHANGED <<filenames, content, output>>
    /\ UNCHANGED <<extractVars, retrieverVars, queryVars>>

\* one iteration of "for file in filenames" (lines 237-240)
CopyStep ==
    /\ rpc = "copy"
    /\ ri <= Len(filenames)
    /\ LET file == filenames[ri]
       IN IF file \notin Range(Originals) /\ file \notin Range(Reruns)
          THEN output' = Write(output, GetNameWithoutRunNumber(file) \o <<JSON>>,
                               content[file])
          ELSE output' = output
    /\ ri' = ri + 1
    /\ UNCHANGED <<filenames, content, rpc>>
    /\ UNCHANGED <<extractVars, retrieverVars, queryVars>>

CopyDone ==
    /\ rpc = "copy"
    /\ ri > Len(filenames)
    /\ rpc' = "done"
    /\ UNCHANGED <<filenames, content, output, ri>>
    /\ UNCHANGED <<extractVars, retrieverVars, queryVars>>

NextReplace == RerunStep \/ RerunsDone \/ CopyStep \/ CopyDone

SpecReplace == InitReplace /\ [][NextReplace]_vars

---------------------------------------------------------------------------
\* Claims on replace_old_runs

\* the rerun files of system sys in the input directory
RerunFilesOf(sys) ==
    {f \in Range(filenames) : f # FileOf(sys, 1) /\ GetNameWithoutRunNumber(f) = sys}

KeysOf(json) == {TestKey(json.tests[i]) : i \in DOMAIN json.tests}

\* the records with key k in a report
RecordsOf(json, k) == {json.tests[i] : i \in {j \in DOMAIN json.tests : TestKey(json.tests[j]) = k}}

\* the newest rerun file of sys that contains key k
NewestRerunWith(sys, k) ==
    CHOOSE f \in RerunFilesOf(sys) :
        /\ k \in KeysOf(content[f])
        /\ \A g \in RerunFilesOf(sys) :
              k \in KeysOf(content[g]) => RunNumber(g) <= RunNumber(f)

\* C1: when replace_old_runs has finished, every test key of the original
\* that occurs in at least one rerun has, in the consolidated output, exactly
\* the record of the newest rerun that contains it.
C1_NewestRerunWins ==
    rpc = "done" =>
        \A k \in KeysOf(content[FileOf(SysA, 1)]) :
            (\E f \in RerunFilesOf(SysA) : k \in KeysOf(content[f])) =>
                RecordsOf(output[SysA \o <<JSON>>], k)
                    = RecordsOf(content[NewestRerunWith(SysA, k)], k)

\* C2: in every output file, at every moment it exists, each test of the
\* system's original whose key occurs in no rerun file of that system is the
\* original's record, at the original's place.
C2_UntouchedTestsKept ==
    \A sys \in {SysA, SysB} :
        (sys \o <<JSON>>) \in DOMAIN output =>
            LET orig == content[FileOf(sys, 1)]
                out == output[sys \o <<JSON>>]
            IN \A i \in DOMAIN orig.tests :
                  (\A f \in RerunFilesOf(sys) : TestKey(orig.tests[i]) \notin KeysOf(content[f]))
                      => i \in DOMAIN out.tests /\ out.tests[i] = orig.tests[i]

\* C2 witness: the run finished for a system with two reruns that replaced a
\* test, while another test of the original is in neither rerun.
C2_Witness ==
    /\ rpc = "done"
    /\ Cardinality(RerunFilesOf(SysA)) >= 2
    /\ \A f \in RerunFilesOf(SysA) : KeysOf(content[f]) = {K2}
    /\ output[SysA \o <<JSON>>].tests[2] = TestOf(K2, MaxAttempt)
    /\ output[SysA \o <<JSON>>].tests[1] = TestOf(K1, 1)

\* the test keys of a report, in the order of its tests
KeySequence(json) == [i \in DOMAIN json.tests |-> TestKey(json.tests[i])]

\* C28: at every moment the consolidated report of a system exists, its
\* tests have the keys of the system's original, in the original's order, its
\* other top-level fields are the original's, and a test found only in a
\* rerun file is not in it.
C28_TestsNeitherAddedNorRemoved ==
    \A sys \in {SysA, SysB} :
        (sys \o <<JSON>>) \in DOMAIN output =>
            LET orig == content[FileOf(sys, 1)]
                out == output[sys \o <<JSON>>]
            IN /\ KeySequence(out) = KeySequence(orig)
               /\ DOMAIN out = DOMAIN orig
               /\ \A field \in DOMAIN orig \ {"tests"} : out[field] = orig[field]
               /\ \A f \in RerunFilesOf(sys) :
                     \A k \in KeysOf(content[f]) \ KeysOf(orig) : k \notin KeysOf(out)

\* C28 witness: the run finished, every rerun of the system held a test of
\* the original and a test of its own, and the output holds the rerun's
\* record of the first and the two tests of the original only.
C28_Witness ==
    /\ rpc = "done"
    /\ RerunFilesOf(SysA) # {}
    /\ \A f \in RerunFilesOf(SysA) : KeysOf(content[f]) = {K1, K3}
    /\ KeySequence(output[SysA \o <<JSON>>]) = <<K1, K2>>
    /\ output[SysA \o <<JSON>>].tests[1] # TestOf(K1, 1)
    /\ output[SysA \o <<JSON>>].tests[2] = TestOf(K2, 1)

---------------------------------------------------------------------------
\* replace_old_runs over directories whose system names are prefixes of one
\* another, and whose systems lack some of their run attempts

SysAB == <<"a", "b">>     \* a system whose name starts with the name of SysA

NamedSystems == {SysA, SysAB, SysB}

\* the files a directory can hold, by name
FilePool ==
    [n \in 1..MaxAttempt |-> FileOf(SysA, n)]
        \o <<FileOf(SysAB, 1), FileOf(SysAB, 2), FileOf(SysB, 1)>>

NameListings ==
    UNION {LET byName == SelectSeq(FilePool, LAMBDA f : f \in S)
           IN {byName, Reverse(byName)} : S \in SUBSET Range(FilePool)}

\* the composed features of the system of file f, as written in its attempt
ReportIn(f) ==
    LET n == RunNumber(f)
    IN ReportOf(GetNameWithoutRunNumber(f), IF n = 1 THEN OriginalKeys ELSE <<K1>>, n)

InitReplaceNames ==
    /\ filenames \in NameListings
    /\ content = [f \in Range(filenames) |-> ReportIn(f)]
    /\ output = <<>>
    /\ rpc = "reruns"
    /\ ri = 1
    /\ ExtractIdle
    /\ RetrieverIdle
    /\ QueryIdle

SpecReplaceNames == InitReplaceNames /\ [][NextReplace]_vars

\* the input files of system sys
FilesOfSystem(sys) == {f \in Range(filenames) : GetNameWithoutRunNumber(f) = sys}

SystemsPresent == {sys \in NamedSystems : FilesOfSystem(sys) # {}}

\* C18: when replace_old_runs has finished, each system that has only its
\* attempt-1 file has the output file <system>.json, equal to that file, and
\* the output files are exactly one <system>.json per system of the input.
C18_OneOutputPerSystem ==
    rpc = "done" =>
        /\ \A sys \in NamedSystems :
              FilesOfSystem(sys) = {FileOf(sys, 1)} =>
                  /\ (sys \o <<JSON>>) \in DOMAIN output
                  /\ output[sys \o <<JSON>>] = content[FileOf(sys, 1)]
        /\ DOMAIN output = {sys \o <<JSON>> : sys \in SystemsPresent}

IsRerunFile(f) == RunNumber(f) > 1

\* the attempt-1 files whose name starts with the name of rerun r stripped
\* of its attempt suffix
FirstRunsMatching(r) ==
    {f \in Range(filenames) :
        ~ IsRerunFile(f) /\ StartsWith(f, GetNameWithoutRunNumber(r))}

HasRerunByPrefix(f) ==
    \E r \in Range(filenames) :
        IsRerunFile(r) /\ StartsWith(r, GetNameWithoutRunNumber(f))

\* no system of the directory has a name that another one's starts with
PrefixFreeNames ==
    \A s1, s2 \in SystemsPresent : StartsWith(s1, s2) => s1 = s2

SeveralOriginalsAbort ==
    /\ rpc = "error"
    /\ Cardinality({f \in FirstRunsMatching(Reruns[ri]) : HasRerunByPrefix(f)}) >= 2

---------------------------------------------------------------------------
\* featcomposer.py, composed feature generation: the files of dir are named
\* <backend>:<system>:<suite>--<task>[:<variant>][.json]

\* str.count(c)
Count(s, c) == Cardinality({i \in DOMAIN s : s[i] = c})

\* sub in s
Contains(s, sub) ==
    \E i \in 0..(Len(s) - Len(sub)) : SubSeq(s, i + 1, i + Len(sub)) = sub

\* s.split(c)
RECURSIVE Split(_, _)
Split(s, c) ==
    IF \A i \in DOMAIN s : s[i] # c THEN <<s>>
    ELSE LET i == CHOOSE i \in DOMAIN s : s[i] = c /\ \A j \in 1..(i - 1) : s[j] # c
         IN <<SubSeq(s, 1, i - 1)>> \o Split(SubSeq(s, i + 1, Len(s)), c)

\* c.join(parts)
RECURSIVE Join(_, _)
Join(parts, c) ==
    IF parts = <<>> THEN <<>>
    ELSE IF Len(parts) = 1 THEN parts[1]
    ELSE parts[1] \o <<c>> \o Join(Tail(parts), c)

\* s.replace('--', '/')
RECURSIVE ReplaceDashes(_)
ReplaceDashes(s) ==
    IF Len(s) < 2 THEN s
    ELSE IF s[1] = "-" /\ s[2] = "-" THEN <<"/">> \o ReplaceDashes(SubSeq(s, 3, Len(s)))
    ELSE <<s[1]>> \o ReplaceDashes(Tail(s))

\* _parse_file_name: SpreadTaskNames(original, suite, task, variant)
ParseFileName(file_name) ==
    LET original_name == ReplaceDashes(RemoveJsonExtension(file_name))
        parts == Split(original_name, ":")
        task == Join(SubSeq(parts, 3, Len(parts)), ":")
        path == Split(task, "/")
        suite_name == Join(SubSeq(path, 1, Len(path) - 1), "/")
        task_name == path[Len(path)]
    IN IF Count(task_name, ":") = 1
       THEN [original |-> original_name, suite |-> suite_name,
             task |-> Split(task_name, ":")[1], variant |-> Split(task_name, ":")[2]]
       ELSE [original |-> original_name, suite |-> suite_name,
             task |-> task_name, variant |-> <<>>]

\* _compose_test: the fields read from the file come on top of the test's own
ComposeTest(files, file, failed_tests) ==
    LET names == ParseFileName(file)
    IN files[file] @@ [suite |-> names.suite, task_name |-> names.task,
                       variant |-> names.variant,
                       success |-> names.original \notin failed_tests]

\* the condition of the list comprehension of compose_system
Picked(file, system) == Contains(file, system) /\ Count(file, ":") >= 2

\* compose_system, without env_variables and scenarios
ComposeSystem(listing, files, system, failed_tests) ==
    LET picked == SelectSeq(listing, LAMBDA file : Picked(file, system))
    IN [schema_version |-> "0.0.0", system |-> system, scenarios |-> <<>>,
        env_variables |-> <<>>,
        tests |-> [i \in DOMAIN picked |-> ComposeTest(files, picked[i], failed_tests)]]

\* get_system_list
GetSystemList(listing) ==
    {Join(SubSeq(Split(listing[i], ":"), 1, 2), ":") :
        i \in {j \in DOMAIN listing : Count(listing[j], ":") >= 2}}

\* the file of a test: backend b, suite u
TestFile(system, task, variant, ext) ==
    <<"b", ":">> \o system \o <<":", "u", "-", "-">> \o task
        \o (IF variant = <<>> THEN <<>> ELSE <<":">> \o variant) \o ext

Sys1 == <<"s">>
Sys2 == <<"s", "2">>      \* a system name that contains the name Sys1

\* the files dir can hold, by name: tests of two systems, and a file that is
\* no test's
ComposePool ==
    << TestFile(Sys1, <<"t">>, <<>>, <<>>), TestFile(Sys1, <<"t">>, <<"v">>, <<JSON>>),
       TestFile(Sys1, <<"w">>, <<>>, <<JSON>>),
       TestFile(Sys2, <<"t">>, <<>>, <<JSON>>), TestFile(Sys2, <<"t">>, <<"v">>, <<>>),
       TestFile(Sys2, <<"w">>, <<>>, <<>>),
       <<"n", "o", "t", "e", "s">> >>

ComposeListings ==
    UNION {LET byName == SelectSeq(ComposePool, LAMBDA f : f \in S)
           IN {byName, Reverse(byName)} : S \in SUBSET Range(ComposePool)}

\* the names given with --failed-tests
FailedTestSets == { {}, {ParseFileName(ComposePool[1]).original,
                         ParseFileName(ComposePool[4]).original} }

\* the output of journal-analyzer for the test of file f: its cmds name f
FeaturesIn(f) == [cmds |-> <<[cmd |-> f]>>]

\* the argument --failed-tests, kept with the files
FailedArg == <<"--failed-tests">>

\* main(), generation mode: rpc is "compose" while the loop over the systems
\* runs; content holds the files and, under FailedArg, the names of failed tests
InitCompose ==
    /\ filenames \in ComposeListings
    /\ \E failed \in FailedTestSets :
          content = [f \in Range(filenames) \cup {FailedArg} |->
                        IF f = FailedArg THEN failed ELSE FeaturesIn(f)]
    /\ output = <<>>
    /\ rpc = "compose"
    /\ ri = 0
    /\ ExtractIdle
    /\ RetrieverIdle
    /\ QueryIdle

\* one iteration of "for system in systems", the set in any order
ComposeStep ==
    /\ rpc = "compose"
    /\ \E system \in GetSystemList(filenames) :
          /\ (system \o <<JSON>>) \notin DOMAIN output
          /\ output' = Write(output, system \o <<JSON>>,
                             ComposeSystem(filenames, content, system, content[FailedArg]))
    /\ ri' = ri + 1
    /\ UNCHANGED <<filenames, content, rpc>>
    /\ UNCHANGED <<extractVars, retrieverVars, queryVars>>

ComposeDone ==
    /\ rpc = "compose"
    /\ ri = Cardinality(GetSystemList(filenames))
    /\ rpc' = "done"
    /\ UNCHANGED <<filenames, content, output, ri>>
    /\ UNCHANGED <<extractVars, retrieverVars, queryVars>>

NextCompose == ComposeStep \/ ComposeDone

SpecCompose == InitCompose /\ [][NextCompose]_vars

\* the file a composed test was read from
FileOfTest(test) == test["cmds"][1]["cmd"]

\* C24: in every composed report no two tests have the same (suite,
\* task_name, variant), and every test was read from a file whose name
\* starts with the <backend>:<system> of the report.
C24_ComposedKeysUnique ==
    \A name \in DOMAIN output :
        LET report == output[name]
        IN /\ \A i, j \in DOMAIN report.tests :
                 TestKey(report.tests[i]) = TestKey(report.tests[j]) => i = j
           /\ \A i \in DOMAIN report.tests :
                 Join(SubSeq(Split(FileOfTest(report.tests[i]), ":"), 1, 2), ":")
                     = report.system

---------------------------------------------------------------------------
\* state.py: State over a parsed state.json. Dictionaries are functions on
\* strings; a resolution gives [err |-> exception or "none", val |-> value].

TASKS_IGNORE_SNAP_TYPE ==
    {"clear-confdb-tx-on-error", "commit-confdb-tx", "clear-confdb-tx",
     "load-confdb-change", "update-gadget-cmdline", "create-recovery-system",
     "finalize-recovery-system", "remove-recovery-system", "check-rerefresh",
     "exec-command", "request-serial", "enforce-validation-sets", "mark-seeded",
     "hotplug-add-slot", "hotplug-connect", "hotplug-disconnect",
     "hotplug-remove-slot", "service-control", "quota-control"}

\* the State that main() could not load: calling a method of it raises
NoState == [none |-> TRUE]
IsNoState(st) == "none" \in DOMAIN st

Ok(v) == [err |-> "none", val |-> v]
\* an exception swallowed: the call returns an empty list
Swallowed(e) == [err |-> "none", val |-> <<>>]

Raise(e) == [err |-> e, val |-> <<>>]

\* _keys_in_dict(dictionary, *args)
RECURSIVE KeysInDict(_, _)
KeysInDict(dictionary, args) ==
    IF args = <<>> THEN TRUE
    ELSE /\ Head(args) \in DOMAIN dictionary
         /\ KeysInDict(dictionary[Head(args)], Tail(args))

\* the ids and snap names of a state.json in the order of its keys
IdOrder == <<"1", "2", "3", "4", "5", "6", "7", "8", "9">>
SnapNames == <<"core", "pc", "app1">>
KeysInOrder(order, dict) == SelectSeq(order, LAMBDA k : k \in DOMAIN dict)

\* the string "NOT_FOUND: {}".format(snap_name)
NotFound(snap_name) ==
    CASE snap_name = "core" -> "NOT_FOUND: core"
      [] snap_name = "pc" -> "NOT_FOUND: pc"
      [] snap_name = "app1" -> "NOT_FOUND: app1"
      [] OTHER -> "NOT_FOUND: ?"

\* list(a set of strings): the elements in the iteration order of the process
ListOfSet(S, order) == SelectSeq(order, LAMBDA x : x \in S)

\* State.get_task
GetTask(st, id) ==
    IF "tasks" \in DOMAIN st /\ id \in DOMAIN st["tasks"]
    THEN Ok(st["tasks"][id]) ELSE Raise("NotInStateError")

\* State.get_change
GetChange(st, id) ==
    IF "changes" \in DOMAIN st /\ id \in DOMAIN st["changes"]
    THEN Ok(st["changes"][id]) ELSE Raise("NotInStateError")

\* State.get_snap_type
GetSnapType(st, snap_name) ==
    IF KeysInDict(st, <<"data", "snaps", snap_name, "type">>)
    THEN st["data"]["snaps"][snap_name]["type"]
    ELSE LET carries(id) ==
                 LET task == st["tasks"][id]
                 IN /\ KeysInDict(task, <<"data", "snap-setup", "side-info", "name">>)
                    /\ task["data"]["snap-setup"]["side-info"]["name"] = snap_name
                    /\ KeysInDict(task, <<"data", "snap-setup", "type">>)
             found == SelectSeq(KeysInOrder(IdOrder, st["tasks"]), carries)
         IN IF found # <<>>
            THEN st["tasks"][found[1]]["data"]["snap-setup"]["type"]
            ELSE NotFound(snap_name)

\* the set comprehension of line 143 over data['snaps'].values()
SnapsTypes(snaps) ==
    IF \E n \in DOMAIN snaps : "type" \notin DOMAIN snaps[n]
    THEN Raise("KeyError")
    ELSE Ok({snaps[n]["type"] : n \in DOMAIN snaps})

\* get_snap_types_from_task_id with snap-setup.type tried before snap-type
GetSnapTypesSetupTypeFirst(st, id, order, depth) ==
    LET task == st["tasks"][id]
        data == task["data"]
    IN IF task["kind"] \in TASKS_IGNORE_SNAP_TYPE THEN Ok(<<>>)
       ELSE IF "data" \notin DOMAIN task THEN Ok(<<>>)
       ELSE IF KeysInDict(data, <<"snap-setup", "type">>)
            THEN Ok(<<data["snap-setup"]["type"]>>)
       ELSE IF KeysInDict(data, <<"snap-type">>)
            THEN Ok(<<data["snap-type"]>>)
       ELSE Raise("NotInStateError")

\* State.get_snap_types_from_task_id; depth counts the calls still allowed:
\* a chain of references longer than the number of tasks visits a task twice
\* and so never ends (RecursionError)
RECURSIVE GetSnapTypesFromTaskId(_, _, _, _)
RECURSIVE UnionOfTasks(_, _, _, _, _, _)

GetSnapTypesFromTaskId(st, id, order, depth) ==
    IF depth = 0 THEN Raise("RecursionError")
    ELSE LET got == GetTask(st, id)
             task == got.val
             data == task["data"]
         IN IF got.err # "none" THEN got
            ELSE IF task["kind"] \in TASKS_IGNORE_SNAP_TYPE THEN Ok(<<>>)
            ELSE IF "data" \notin DOMAIN task THEN Ok(<<>>)
            ELSE IF KeysInDict(data, <<"snap-type">>)
                 THEN Ok(<<data["snap-type"]>>)
            ELSE IF KeysInDict(data, <<"snap-setup", "type">>)
                 THEN Ok(<<data["snap-setup"]["type"]>>)
            ELSE IF KeysInDict(data, <<"snap-setup", "side-info", "name">>)
                 THEN Ok(<<GetSnapType(st, data["snap-setup"]["side-info"]["name"])>>)
            ELSE IF KeysInDict(data, <<"snap-setup-task">>)
                 THEN GetSnapTypesFromTaskId(st, data["snap-setup-task"], order, depth - 1)
            ELSE IF KeysInDict(data, <<"hook-setup", "snap">>)
                 THEN Ok(<<GetSnapType(st, data["hook-setup"]["snap"])>>)
            ELSE IF KeysInDict(data, <<"plug", "snap">>) /\ KeysInDict(data, <<"slot", "snap">>)
                 THEN Ok(<<GetSnapType(st, data["plug"]["snap"]),
                           GetSnapType(st, data["slot"]["snap"])>>)
            ELSE IF KeysInDict(data, <<"snaps">>)
                 THEN LET types == SnapsTypes(data["snaps"])
                      IN IF types.err # "none" THEN types
                         ELSE Ok(ListOfSet(types.val, order))
            ELSE IF KeysInDict(data, <<"snapshot-setup", "snap">>)
                 THEN Ok(<<GetSnapType(st, data["snapshot-setup"]["snap"])>>)
            ELSE IF KeysInDict(data, <<"recovery-system-setup-task">>)
                 THEN GetSnapTypesFromTaskId(st, data["recovery-system-setup-task"],
                                             order, depth - 1)
            ELSE IF KeysInDict(data, <<"recovery-system-setup", "snap-setup-tasks">>)
                 THEN LET types == UnionOfTasks(st,
                                      data["recovery-system-setup"]["snap-setup-tasks"],
                                      1, {}, order, depth - 1)
                      IN IF types.err # "none" THEN types
                         ELSE Ok(ListOfSet(types.val, order))
            ELSE Raise("NotInStateError")

\* the union of the snap types of tasks[k..], the first failure ends it
UnionOfTasks(st, tasks, k, snap_types, order, depth) ==
    IF k > Len(tasks) THEN Ok(snap_types)
    ELSE LET r == GetSnapTypesFromTaskId(st, tasks[k], order, depth)
         IN IF r.err # "none" THEN r
            ELSE UnionOfTasks(st, tasks, k + 1, snap_types \cup Range(r.val), order, depth)

\* the number of nested calls after which a task has been visited twice
DepthOf(st) == IF "tasks" \in DOMAIN st THEN Cardinality(DOMAIN st["tasks"]) + 1 ELSE 1

\* State.get_snap_types_from_change_id: a set
GetSnapTypesFromChangeId(st, id, order) ==
    LET got == GetChange(st, id)
    IN IF got.err # "none" THEN got
       ELSE IF "task-ids" \notin DOMAIN got.val THEN Ok({})
       ELSE UnionOfTasks(st, got.val["task-ids"], 1, {}, order, DepthOf(st))

---------------------------------------------------------------------------
\* featextractor.py: a handler gives [fd |-> the feature_dict it leaves,
\* err |-> the exception that leaves it, or "none"]. A KeyError caught by the
\* handler's own except clause is printed and leaves err = "none".

Done(fd) == [fd |-> fd, err |-> "none"]
Fail(fd, e) == [fd |-> fd, err |-> e]

\* feature_dict[parent] of a defaultdict(list): reading a missing key adds it
Touch(fd, parent) ==
    IF parent \in DOMAIN fd THEN fd
    ELSE [k \in DOMAIN fd \cup {parent} |-> IF k = parent THEN <<>> ELSE fd[k]]

\* feature_dict[parent].append(x)
AppendTo(fd, parent, x) == [Touch(fd, parent) EXCEPT ![parent] = Append(@, x)]

\* CmdFeature.handle_feature
CmdHandle(fd, line) ==
    IF "cmd" \in DOMAIN line
    THEN Done(AppendTo(fd, "cmds", [cmd |-> line["cmd"]]))
    ELSE Done(Touch(fd, "cmds"))

\* EndpointFeature.handle_feature
EndpointHandle(fd, line) ==
    IF "method" \notin DOMAIN line \/ "path" \notin DOMAIN line THEN Done(fd)
    ELSE IF "action" \in DOMAIN line
    THEN Done(AppendTo(fd, "endpoints",
                [method |-> line["method"], path |-> line["path"],
                 action |-> line["action"]]))
    ELSE Done(AppendTo(fd, "endpoints",
                [method |-> line["method"], path |-> line["path"]]))

\* InterfaceFeature.handle_feature
InterfaceHandle(fd, line) ==
    IF {"interface", "plug", "slot"} \subseteq DOMAIN line
    THEN Done(AppendTo(fd, "interfaces",
                [name |-> line["interface"], plug_snap_type |-> line["plug"],
                 slot_snap_type |-> line["slot"]]))
    ELSE Done(Touch(fd, "interfaces"))

\* the oldest of the records at the positions `mine`
Oldest(mine) == CHOOSE i \in mine : \A j \in mine : i <= j

\* the first hit of "for ensure_list in reversed(...)": the last position
MostRecent(mine) == CHOOSE i \in mine : \A j \in mine : j <= i

\* EnsureFeature.handle_feature
EnsureHandle(fd, line) ==
    IF "func" \in DOMAIN line
    THEN LET f == Touch(fd, "ensures")
             l == f["ensures"]
             mine == {i \in DOMAIN l : l[i].manager = line["manager"]}
         IN IF l = <<>> \/ "manager" \notin DOMAIN line \/ mine = {} THEN Done(f)
            ELSE Done([f EXCEPT !["ensures"][MostRecent(mine)].functions =
                                    Append(@, line["func"])])
    ELSE IF "manager" \in DOMAIN line
    THEN Done(AppendTo(fd, "ensures", [manager |-> line["manager"], functions |-> <<>>]))
    ELSE Done(Touch(fd, "ensures"))

\* ChangeFeature.handle_feature
ChangeHandle(fd, line, st, order) ==
    IF IsNoState(st) THEN Fail(fd, "AttributeError")
    ELSE IF "id" \notin DOMAIN line THEN Done(fd)
    ELSE LET r == GetSnapTypesFromChangeId(st, line["id"], order)
         IN IF r.err = "KeyError" THEN Done(fd)
            ELSE IF r.err # "none" THEN Fail(fd, r.err)
            ELSE IF "kind" \in DOMAIN line
            THEN Done(AppendTo(fd, "changes",
                        [kind |-> line["kind"], snap_types |-> ListOfSet(r.val, order)]))
            ELSE Done(Touch(fd, "changes"))

\* an update that also takes the kind of the later line
UpdateEntryAndKind(entry, line) ==
    [entry EXCEPT !.last_status = line["status"], !.kind = line["task-name"]]

\* an entry that keeps the status it was created with
UpdateEntryKeepingStatus(entry, line) == entry

\* entry['last_status'] = json_entry[TaskLogLine.status]
UpdateEntry(entry, line) == [entry EXCEPT !.last_status = line["status"]]

\* TaskFeature.handle_feature
TaskHandle(fd, line, st, order) ==
    LET f == Touch(fd, "tasks")
        l == f["tasks"]
        same == {i \in DOMAIN l : l[i].id = line["id"]}
    IN IF l # <<>> /\ "id" \notin DOMAIN line THEN Fail(f, "KeyError")
       ELSE IF l # <<>> /\ same # {}
       THEN IF "status" \notin DOMAIN line THEN Fail(f, "KeyError")
            ELSE LET i == CHOOSE i \in same : \A j \in same : i <= j
                 IN Done([f EXCEPT !["tasks"][i] = UpdateEntry(@, line)])
       ELSE IF IsNoState(st) THEN Fail(f, "AttributeError")
       ELSE IF "id" \notin DOMAIN line THEN Done(f)
       ELSE LET r == GetSnapTypesFromTaskId(st, line["id"], order, DepthOf(st))
            IN IF r.err = "KeyError" THEN Done(f)
               ELSE IF r.err # "none" THEN Fail(f, r.err)
               ELSE IF "task-name" \in DOMAIN line /\ "status" \in DOMAIN line
               THEN Done(AppendTo(f, "tasks",
                           [id |-> line["id"], kind |-> line["task-name"],
                            last_status |-> line["status"], snap_types |-> r.val]))
               ELSE Done(f)

\* a deduplication that keeps the first of equal elements
RECURSIVE DedupKeepFirst(_)
DedupKeepFirst(l) ==
    IF l = <<>> THEN <<>>
    ELSE LET front == SubSeq(l, 1, Len(l) - 1)
         IN IF l[Len(l)] \in Range(front) THEN DedupKeepFirst(front)
            ELSE Append(DedupKeepFirst(front), l[Len(l)])

\* [i for n, i in enumerate(l) if i not in l[n + 1:]]
RECURSIVE Dedup(_)
Dedup(l) ==
    IF l = <<>> THEN <<>>
    ELSE IF Head(l) \in Range(Tail(l)) THEN Dedup(Tail(l))
    ELSE <<Head(l)>> \o Dedup(Tail(l))

\* cleanup_dict of CmdFeature, EndpointFeature and InterfaceFeature
CleanupIfPresent(fd, parent) ==
    IF parent \in DOMAIN fd THEN [fd EXCEPT ![parent] = Dedup(@)] ELSE fd

\* cleanup_dict of EnsureFeature and ChangeFeature
CleanupAlways(fd, parent) == [Touch(fd, parent) EXCEPT ![parent] = Dedup(@)]

\* del entry['id']
StripId(entry) ==
    [kind |-> entry.kind, last_status |-> entry.last_status,
     snap_types |-> entry.snap_types]

\* TaskFeature.cleanup_dict
TaskCleanup(fd) ==
    IF "tasks" \in DOMAIN fd
    THEN [fd EXCEPT !["tasks"] = Dedup([i \in DOMAIN @ |-> StripId(@[i])])]
    ELSE fd

\* the loop "for feature_class in feature_classes: cleanup_dict", every
\* class of FEATURE_LIST being asked for
CleanupAll(fd) ==
    TaskCleanup(CleanupAlways(CleanupAlways(
        CleanupIfPresent(CleanupIfPresent(CleanupIfPresent(fd, "cmds"),
            "endpoints"), "interfaces"), "ensures"), "changes"))

\* the body of "for line in log_file": json.loads, then the handler of the
\* feature class whose msg the line carries
HandleLine(fd, line, st, order) ==
    IF "malformed" \in DOMAIN line THEN Fail(fd, "RuntimeError")
    ELSE IF "msg" \notin DOMAIN line THEN Done(fd)
    ELSE CASE line["msg"] = "command-execution" -> CmdHandle(fd, line)
           [] line["msg"] = "endpoint" -> EndpointHandle(fd, line)
           [] line["msg"] = "interface-connection" -> InterfaceHandle(fd, line)
           [] line["msg"] = "ensure" -> EnsureHandle(fd, line)
           [] line["msg"] = "new-change" -> ChangeHandle(fd, line, st, order)
           [] line["msg"] = "task-status-change" -> TaskHandle(fd, line, st, order)
           [] OTHER -> Done(fd)

\* the whole loop over the lines of a log, from feature_dict fd
RECURSIVE RunLog(_, _, _, _)
RunLog(fd, lines, st, order) ==
    IF lines = <<>> THEN Done(fd)
    ELSE LET r == HandleLine(fd, Head(lines), st, order)
         IN IF r.err # "none" THEN r ELSE RunLog(r.fd, Tail(lines), st, order)

---------------------------------------------------------------------------
\* Inputs of get_feature_dictionary

MaxLines == 3       \* lines of one journal

\* the state.json of the run: tasks 1 and 2 resolve, task 3 matches no
\* shape; change 1 lists tasks, change 2 has no task list, change 3 lists
\* task 3; id 9 is in neither map
Snapshot ==
    [tasks |->
        ("1" :> [kind |-> "link-snap", data |-> ("snap-setup" :> [type |-> "snapd"])])
     @@ ("2" :> [kind |-> "install-component", data |-> ("snap-type" :> "app")])
     @@ ("3" :> [kind |-> "run-hook", data |-> ("unknown" :> "x")]),
     changes |->
        ("1" :> ("task-ids" :> <<"1", "2">>))
     @@ ("2" :> [kind |-> "install"])
     @@ ("3" :> ("task-ids" :> <<"3">>))]

\* State({}), as handed in when no state.json is at hand
EmptyState == <<>>

SnapTypes == {"app", "snapd"}

Msg(m) == "msg" :> m

CmdLines ==
    {Msg("command-execution") @@ ("cmd" :> c) : c \in {"c1", "c2"}}
    \cup {Msg("command-execution")}

EndpointLines ==
    { Msg("endpoint") @@ [method |-> "GET", path |-> "/v2/snaps"],
      Msg("endpoint") @@ [method |-> "GET", path |-> "/v2/snaps", action |-> "install"],
      Msg("endpoint") @@ [method |-> "GET"] }

InterfaceLines ==
    { Msg("interface-connection") @@ [interface |-> "home", plug |-> "app", slot |-> "snapd"],
      Msg("interface-connection") @@ [interface |-> "home", plug |-> "app"] }

EnsureLines ==
    {Msg("ensure") @@ [manager |-> m] : m \in {"m1", "m2"}}
    \cup {Msg("ensure") @@ [manager |-> "m1", func |-> f] : f \in {"f", "g"}}
    \cup {Msg("ensure") @@ [manager |-> "m2", func |-> "f"],
          Msg("ensure") @@ [func |-> "f"], Msg("ensure")}

TaskLine(id, name, status) ==
    Msg("task-status-change") @@ ("id" :> id) @@ ("task-name" :> name) @@ ("status" :> status)

TaskLines ==
    { TaskLine("1", "k1", "Doing"), TaskLine("1", "k2", "Done"),
      TaskLine("2", "k1", "Doing"), TaskLine("3", "k3", "Doing"),
      TaskLine("9", "k1", "Doing"),
      Msg("task-status-change") @@ ("task-name" :> "k1") @@ ("status" :> "Done"),
      Msg("task-status-change") @@ ("id" :> "1") @@ ("task-name" :> "k1"),
      Msg("task-status-change") @@ ("id" :> "2") @@ ("status" :> "Done") }

ChangeLines ==
    {Msg("new-change") @@ [id |-> i, kind |-> "ck1"] : i \in {"1", "3", "9"}}
    \cup { Msg("new-change") @@ [id |-> "2", kind |-> "ck2"],
           Msg("new-change") @@ [id |-> "1"],
           Msg("new-change") @@ [kind |-> "ck1"] }

\* lines no feature class asks for
OtherLines == {Msg("other"), [cmd |-> "c1"]}

\* a line json.loads rejects
MalformedLine == [malformed |-> TRUE]

\* the journal of one test holds events of one group of feature classes
GroupOf(line) ==
    IF "msg" \in DOMAIN line
       /\ line["msg"] \in {"ensure", "task-status-change", "new-change"}
    THEN line["msg"] ELSE "plain"

InitExtract ==
    /\ state \in {Snapshot, EmptyState, NoState}
    /\ setOrder \in Orderings(SnapTypes)
    /\ journal = <<>>
    /\ feature_dict = <<>>
    /\ epc = "reading"
    /\ eerr = "none"
    /\ ReplaceIdle
    /\ RetrieverIdle
    /\ QueryIdle

\* whether the loop "for line in log_file" can read `line` next
CanRead(line) ==
    /\ epc = "reading"
    /\ Len(journal) < MaxLines
    /\ journal # <<>> => GroupOf(journal[1]) = GroupOf(line)

\* the extractor after the loop body ran on `line` with handler result r
After(line, r) ==
    [journal |-> Append(journal, line),
     fd |-> IF r.err = "none" THEN r.fd ELSE feature_dict,
     epc |-> IF r.err = "none" THEN epc ELSE "error",
     eerr |-> r.err]

ReadCmd ==
    \E line \in CmdLines :
        /\ CanRead(line)
        /\ LET a == After(line, CmdHandle(feature_dict, line))
           IN journal' = a.journal /\ feature_dict' = a.fd /\ epc' = a.epc /\ eerr' = a.eerr
        /\ UNCHANGED <<state, setOrder>>
        /\ UNCHANGED <<replaceVars, retrieverVars, queryVars>>

ReadEndpoint ==
    \E line \in EndpointLines :
        /\ CanRead(line)
        /\ LET a == After(line, EndpointHandle(feature_dict, line))
           IN journal' = a.journal /\ feature_dict' = a.fd /\ epc' = a.epc /\ eerr' = a.eerr
        /\ UNCHANGED <<state, setOrder>>
        /\ UNCHANGED <<replaceVars, retrieverVars, queryVars>>

ReadInterface ==
    \E line \in InterfaceLines :
        /\ CanRead(line)
        /\ LET a == After(line, InterfaceHandle(feature_dict, line))
           IN journal' = a.journal /\ feature_dict' = a.fd /\ epc' = a.epc /\ eerr' = a.eerr
        /\ UNCHANGED <<state, setOrder>>
        /\ UNCHANGED <<replaceVars, retrieverVars, queryVars>>

ReadEnsure ==
    \E line \in EnsureLines :
        /\ CanRead(line)
        /\ LET a == After(line, EnsureHandle(feature_dict, line))
           IN journal' = a.journal /\ feature_dict' = a.fd /\ epc' = a.epc /\ eerr' = a.eerr
        /\ UNCHANGED <<state, setOrder>>
        /\ UNCHANGED <<replaceVars, retrieverVars, queryVars>>

ReadChange ==
    \E line \in ChangeLines :
        /\ CanRead(line)
        /\ LET a == After(line, ChangeHandle(feature_dict, line, state, setOrder))
           IN journal' = a.journal /\ feature_dict' = a.fd /\ epc' = a.epc /\ eerr' = a.eerr
        /\ UNCHANGED <<state, setOrder>>
        /\ UNCHANGED <<replaceVars, retrieverVars, queryVars>>

ReadTask ==
    \E line \in TaskLines :
        /\ CanRead(line)
        /\ LET a == After(line, TaskHandle(feature_dict, line, state, setOrder))
           IN journal' = a.journal /\ feature_dict' = a.fd /\ epc' = a.epc /\ eerr' = a.eerr
        /\ UNCHANGED <<state, setOrder>>
        /\ UNCHANGED <<replaceVars, retrieverVars, queryVars>>

\* a line whose msg no feature class declares
ReadOther ==
    \E line \in OtherLines :
        /\ CanRead(line)
        /\ LET a == After(line, Done(feature_dict))
           IN journal' = a.journal /\ feature_dict' = a.fd /\ epc' = a.epc /\ eerr' = a.eerr
        /\ UNCHANGED <<state, setOrder>>
        /\ UNCHANGED <<replaceVars, retrieverVars, queryVars>>

\* json.JSONDecodeError, raised again as RuntimeError
ReadMalformed ==
    /\ CanRead(MalformedLine)
    /\ LET a == After(MalformedLine, Fail(feature_dict, "RuntimeError"))
       IN journal' = a.journal /\ feature_dict' = a.fd /\ epc' = a.epc /\ eerr' = a.eerr
    /\ UNCHANGED <<state, setOrder>>
    /\ UNCHANGED <<replaceVars, retrieverVars, queryVars>>

\* the log is exhausted: the cleanup loop, and the return
EndOfLog ==
    /\ epc = "reading"
    /\ feature_dict' = CleanupAll(feature_dict)
    /\ epc' = "done"
    /\ UNCHANGED <<state, setOrder, journal, eerr>>
    /\ UNCHANGED <<replaceVars, retrieverVars, queryVars>>

NextExtract ==
    \/ ReadCmd \/ ReadEndpoint \/ ReadInterface \/ ReadEnsure \/ ReadChange
    \/ ReadTask \/ ReadOther \/ ReadMalformed \/ EndOfLog

SpecExtract == InitExtract /\ [][NextExtract]_vars

---------------------------------------------------------------------------
\* Claims on get_feature_dictionary

\* the fields the telemetry schema requires of a line with this msg
RequiredFields(msg) ==
    CASE msg = "command-execution" -> {"cmd"}
      [] msg = "endpoint" -> {"method", "path"}
      [] msg = "interface-connection" -> {"interface", "plug", "slot"}
      [] msg = "ensure" -> {"manager"}
      [] msg = "task-status-change" -> {"id", "task-name", "status"}
      [] msg = "new-change" -> {"id", "kind"}
      [] OTHER -> {}

IsEvent(line, msg) == "msg" \in DOMAIN line /\ line["msg"] = msg

\* a recognized event with all its required fields / lacking one of them
Complete(line) ==
    "msg" \in DOMAIN line /\ RequiredFields(line["msg"]) \subseteq DOMAIN line
LacksField(line) ==
    "msg" \in DOMAIN line /\ ~ (RequiredFields(line["msg"]) \subseteq DOMAIN line)

LastLine == journal[Len(journal)]

Get(fd, parent) == IF parent \in DOMAIN fd THEN fd[parent] ELSE <<>>

\* a complete task or change line the State cannot attribute: no State, or
\* the resolution ends in the not-found error
Unattributable(line) ==
    /\ Complete(line)
    /\ \/ /\ IsEvent(line, "task-status-change")
          /\ \/ IsNoState(state)
             \/ GetSnapTypesFromTaskId(state, line["id"], setOrder, DepthOf(state)).err
                    = "NotInStateError"
       \/ /\ IsEvent(line, "new-change")
          /\ \/ IsNoState(state)
             \/ GetSnapTypesFromChangeId(state, line["id"], setOrder).err
                    = "NotInStateError"

\* the sentinel snap types of the spec
Sentinel == IF IsNoState(state) THEN <<"NOT FOUND">> ELSE <<"NOT_FOUND">>

\* C3: a task-status-change or new-change line that cannot be attributed
\* never aborts the run: after it the run is still reading, and the record
\* of the line is in the feature dictionary with the sentinel snap types.
C3_AttributionNeverFatal ==
    (journal # <<>> /\ epc # "done" /\ Unattributable(LastLine)) =>
        /\ epc = "reading"
        /\ IsEvent(LastLine, "new-change") =>
              [kind |-> LastLine["kind"], snap_types |-> Sentinel]
                  \in Range(Get(feature_dict, "changes"))
        /\ IsEvent(LastLine, "task-status-change") =>
              \E e \in Range(Get(feature_dict, "tasks")) :
                  e.id = LastLine["id"] /\ e.snap_types = Sentinel

\* the accumulated records of a kind when the log was exhausted, as they
\* are compared by the cleanup (tasks without their id)
Accumulated(kind) ==
    LET pre == Get(RunLog(<<>>, journal, state, setOrder).fd, kind)
    IN IF kind = "tasks" THEN [i \in DOMAIN pre |-> StripId(pre[i])] ELSE pre

\* the feature a complete cmd, endpoint or interface line stands for
FeatureOf(line) ==
    CASE IsEvent(line, "command-execution") -> [cmd |-> line["cmd"]]
      [] IsEvent(line, "endpoint") /\ "action" \in DOMAIN line ->
            [method |-> line["method"], path |-> line["path"], action |-> line["action"]]
      [] IsEvent(line, "endpoint") /\ "action" \notin DOMAIN line ->
            [method |-> line["method"], path |-> line["path"]]
      [] IsEvent(line, "interface-connection") ->
            [name |-> line["interface"], plug_snap_type |-> line["plug"],
             slot_snap_type |-> line["slot"]]

\* the features of the complete lines with this msg, in the order of the log
LineFeatures(msg) ==
    LET lines == SelectSeq(journal, LAMBDA l : IsEvent(l, msg) /\ Complete(l))
    IN [i \in DOMAIN lines |-> FeatureOf(lines[i])]

FirstPos(l, x) == CHOOSE i \in DOMAIN l : l[i] = x /\ \A j \in DOMAIN l : l[j] = x => i <= j
LastPos(l, x) == CHOOSE i \in DOMAIN l : l[i] = x /\ \A j \in DOMAIN l : l[j] = x => j <= i

\* out holds each distinct element of l once, ordered by Pos in l
OrderedBy(out, l, Pos(_, _)) ==
    /\ Range(out) = Range(l)
    /\ \A i, j \in DOMAIN out : i # j => out[i] # out[j]
    /\ \A i, j \in DOMAIN out : i < j <=> Pos(l, out[i]) < Pos(l, out[j])

Parents == {"cmds", "endpoints", "interfaces", "ensures", "changes", "tasks"}

\* the records of cmds, endpoints and interfaces are the features of the
\* log's lines, in the order of the log
RecordsFollowLog ==
    /\ Accumulated("cmds") = LineFeatures("command-execution")
    /\ Accumulated("endpoints") = LineFeatures("endpoint")
    /\ Accumulated("interfaces") = LineFeatures("interface-connection")

TaskLinesOf(id) ==
    {i \in DOMAIN journal : IsEvent(journal[i], "task-status-change")
                            /\ "id" \in DOMAIN journal[i] /\ journal[i]["id"] = id}

\* C5: before finalization, while every task-status-change line read so far
\* is complete, there is exactly one Task record per task id of the log; its
\* last_status is the status of the last line of that id, its kind the
\* task-name of the first, its snap types those the State resolves for the id.
C5_TaskStatusTracking ==
    (epc = "reading"
     /\ \A i \in DOMAIN journal : IsEvent(journal[i], "task-status-change") => Complete(journal[i]))
    => \A id \in {journal[i]["id"] : i \in {j \in DOMAIN journal :
                                              IsEvent(journal[j], "task-status-change")}} :
          LET tasks == Get(feature_dict, "tasks")
              at == {p \in DOMAIN tasks : tasks[p].id = id}
              first == CHOOSE i \in TaskLinesOf(id) : \A j \in TaskLinesOf(id) : i <= j
              last == CHOOSE i \in TaskLinesOf(id) : \A j \in TaskLinesOf(id) : j <= i
          IN /\ Cardinality(at) = 1
             /\ \A p \in at :
                   /\ tasks[p].last_status = journal[last]["status"]
                   /\ tasks[p].kind = journal[first]["task-name"]
                   /\ tasks[p].snap_types =
                        GetSnapTypesFromTaskId(state, id, setOrder, DepthOf(state)).val

\* C5 witness: task 1 was seen twice, with another task in between; its
\* record has the last status and the first kind
C5_Witness ==
    /\ epc = "reading"
    /\ journal = <<TaskLine("1", "k1", "Doing"), TaskLine("2", "k1", "Doing"),
                   TaskLine("1", "k2", "Done")>>
    /\ feature_dict["tasks"] =
         <<[id |-> "1", kind |-> "k1", last_status |-> "Done", snap_types |-> <<"snapd">>],
           [id |-> "2", kind |-> "k1", last_status |-> "Doing", snap_types |-> <<"app">>]>>

WithoutSoftErrors(lines) == SelectSeq(lines, LAMBDA l : ~ LacksField(l))

\* C7: a recognized event lacking a required field never aborts the run,
\* and the output is the output of the same log without such lines. (An
\* abort by a failed attribution is the subject of C3 and is left aside.)
C7_SoftErrorsSkipped ==
    /\ (epc = "error" /\ eerr \notin {"NotInStateError", "AttributeError"}
          => ~ LacksField(LastLine))
    /\ (epc = "done" =>
          LET r == RunLog(<<>>, WithoutSoftErrors(journal), state, setOrder)
          IN r.err = "none" /\ feature_dict = CleanupAll(r.fd))

\* whether the log is made of ensure lines that each name manager and func
AllEnsureWithFunc ==
    /\ journal # <<>>
    /\ \A i \in DOMAIN journal :
          /\ IsEvent(journal[i], "ensure")
          /\ {"manager", "func"} \subseteq DOMAIN journal[i]

\* C26: from a log of ensure lines that each name manager and func, the
\* output holds under ensures one entry Ensure{manager, function: func} for
\* each distinct (manager, func) of the log, and nothing else.
C26_OneEntryPerEnsureLine ==
    (epc = "done" /\ AllEnsureWithFunc) =>
        LET ensures == Get(feature_dict, "ensures")
            wanted == {[manager |-> journal[i]["manager"], function |-> journal[i]["func"]] :
                          i \in DOMAIN journal}
        IN /\ {ensures[p] : p \in DOMAIN ensures} = wanted
           /\ Len(ensures) = Cardinality(wanted)

\* C23: every Task record of the finalized output has a last_status among
\* Done, Undone and Error.
C23_LastStatusIsFinal ==
    epc = "done" =>
        \A p \in DOMAIN Get(feature_dict, "tasks") :
            Get(feature_dict, "tasks")[p].last_status \in {"Done", "Undone", "Error"}

\* C23 (amended): every Task record of the finalized output has as
\* last_status the status of the last task-status-change line of a task id of
\* the log, whatever that status is; it is among Done, Undone and Error when
\* the log ends each task with one of these.
C23_LastStatusIsLastLine ==
    epc = "done" =>
        \A p \in DOMAIN Get(feature_dict, "tasks") :
            \E id \in {journal[i]["id"] : i \in {j \in DOMAIN journal :
                          IsEvent(journal[j], "task-status-change")
                          /\ "id" \in DOMAIN journal[j]}} :
                LET last == CHOOSE i \in TaskLinesOf(id) : \A j \in TaskLinesOf(id) : j <= i
                IN /\ "status" \in DOMAIN journal[last]
                   /\ Get(feature_dict, "tasks")[p].last_status = journal[last]["status"]

\* C23 witness: the log gave task 1 as Doing and then as Done, and the
\* finalized output holds its record with last_status Done.
C23_Witness ==
    /\ epc = "done"
    /\ Len(journal) >= 2
    /\ journal[1] = TaskLine("1", "k1", "Doing")
    /\ journal[Len(journal)] = TaskLine("1", "k2", "Done")
    /\ \E p \in DOMAIN Get(feature_dict, "tasks") :
          Get(feature_dict, "tasks")[p] =
              [kind |-> "k1", last_status |-> "Done", snap_types |-> <<"snapd">>]

---------------------------------------------------------------------------
\* query_features.py: Retriever, MongoRetriever, DirRetriever.
\* A python dict is a function on strings, {} is <<>>; a call gives the
\* caller [err, val]: the exception that left it ("none" when it returned)
\* and the value returned, iterated to its end when it is a generator.

Returned(v) == [err |-> "none", val |-> v]
Raised(e) == [err |-> e, val |-> <<>>]

ALL_FEATURES_FILE == <<"all-features", ".json">>

\* datetime.datetime.fromisoformat(timestamp)
FromIsoFormat(timestamp) == [datetime |-> timestamp]

\* del d[k] for every k of keys that d has
Del(d, keys) == [k \in (DOMAIN d) \ keys |-> d[k]]

\* collection.find(query): the documents having every field of the query
Find(coll, query) ==
    SelectSeq(coll, LAMBDA d : \A k \in DOMAIN query : k \in DOMAIN d /\ d[k] = query[k])

\* MongoRetriever._get_systems, systems given: for system in systems: find
RECURSIVE FindEach(_, _, _)
FindEach(coll, timestamp, systems) ==
    IF systems = <<>> THEN <<>>
    ELSE Find(coll, [timestamp |-> FromIsoFormat(timestamp), system |-> Head(systems)])
         \o FindEach(coll, timestamp, Tail(systems))

MongoGetSystems(coll, timestamp, systems) ==
    IF systems # <<>>
    THEN Returned(FindEach(coll, timestamp, systems))
    ELSE Returned(SelectSeq(Find(coll, [timestamp |-> FromIsoFormat(timestamp)]),
                            LAMBDA d : "all_features" \notin DOMAIN d \/ ~ d["all_features"]))

MongoGetSingleJson(coll, timestamp, system) ==
    LET json_result == Find(coll, [timestamp |-> FromIsoFormat(timestamp), system |-> system])
    IN IF Len(json_result) # 1 THEN Raised("RuntimeError") ELSE Returned(json_result[1])

MongoGetAllFeatures(coll, timestamp) ==
    LET json_result == Find(coll, [timestamp |-> FromIsoFormat(timestamp), all_features |-> TRUE])
    IN IF Len(json_result) # 1 THEN Raised("RuntimeError")
       ELSE Returned(Del(json_result[1], {"timestamp", "all_features"}))

\* a file of self.dir is [dir, name, json]: the timestamp directory it is
\* in, its name <<stem, extension>> and the document json.load gives
IsDir(fs, timestamp) == \E i \in DOMAIN fs : fs[i].dir = timestamp
ListDir(fs, timestamp) == SelectSeq(fs, LAMBDA f : f.dir = timestamp)
EndsWithJson(name) == EndsWith(name, <<JSON>>)
\* filename.rsplit('.', 1)[0]
FilenameWithoutLastExt(name) == name[1]
\* os.path.join(self.dir, timestamp, system + '.json')
SysPath(system) == <<system, JSON>>
Exists(fs, timestamp, name) == \E i \in DOMAIN fs : fs[i].dir = timestamp /\ fs[i].name = name
Load(fs, timestamp, name) ==
    fs[CHOOSE i \in DOMAIN fs : fs[i].dir = timestamp /\ fs[i].name = name].json

Jsons(fs) == [i \in DOMAIN fs |-> fs[i].json]

DirGetSystems(fs, timestamp, systems) ==
    IF ~ IsDir(fs, timestamp) THEN Raised("RuntimeError")
    ELSE Returned(Jsons(SelectSeq(ListDir(fs, timestamp),
                    LAMBDA f : /\ f.name # ALL_FEATURES_FILE
                               /\ EndsWithJson(f.name)
                               /\ (systems = <<>>
                                   \/ FilenameWithoutLastExt(f.name) \in Range(systems)))))

DirGetSingleJson(fs, timestamp, system) ==
    IF ~ Exists(fs, timestamp, SysPath(system)) THEN Raised("RuntimeError")
    ELSE Returned(Load(fs, timestamp, SysPath(system)))

DirGetAllFeatures(fs, timestamp) ==
    IF ~ Exists(fs, timestamp, ALL_FEATURES_FILE) THEN Raised("RuntimeError")
    ELSE Returned(Del(Load(fs, timestamp, ALL_FEATURES_FILE), {"timestamp", "all_features"}))

\* the abstract methods, on the instance whose class is kind
BackendGetSystems(kind, coll, fs, timestamp, systems) ==
    IF kind = "mongo" THEN MongoGetSystems(coll, timestamp, systems)
    ELSE DirGetSystems(fs, timestamp, systems)

BackendGetSingleJson(kind, coll, fs, timestamp, system) ==
    IF kind = "mongo" THEN MongoGetSingleJson(coll, timestamp, system)
    ELSE DirGetSingleJson(fs, timestamp, system)

BackendGetAllFeatures(kind, coll, fs, timestamp) ==
    IF kind = "mongo" THEN MongoGetAllFeatures(coll, timestamp)
    ELSE DirGetAllFeatures(fs, timestamp)

\* timestamp in self.cache and key in self.cache[timestamp]
Cached(c, timestamp, key) == timestamp \in DOMAIN c /\ key \in DOMAIN c[timestamp]

\* if timestamp not in self.cache: self.cache[timestamp] = {}
WithTimestamp(c, timestamp) ==
    IF timestamp \in DOMAIN c THEN c ELSE (timestamp :> <<>>) @@ c

\* self.cache[timestamp][key] = value
Store(c, timestamp, key, value) ==
    [c EXCEPT ![timestamp] = (key :> value) @@ Del(@, {key})]

\* Retriever.get_single_json: [err, val, backend]; backend says whether
\* _get_single_json was called
SingleJsonResult(c, kind, coll, fs, timestamp, system) ==
    LET hit == IF Cached(c, timestamp, "systems")
               THEN SelectSeq(c[timestamp]["systems"], LAMBDA s : s["system"] = system)
               ELSE <<>>
    IN IF hit # <<>> THEN Returned(hit[1]) @@ [backend |-> FALSE]
       ELSE BackendGetSingleJson(kind, coll, fs, timestamp, system) @@ [backend |-> TRUE]

\* Retriever.get_systems; systems = <<>> stands for None and for []
SystemsResult(c, kind, coll, fs, timestamp, systems) ==
    IF Cached(c, timestamp, "systems")
    THEN (IF systems = <<>>
          THEN Returned(c[timestamp]["systems"])
          ELSE Returned(SelectSeq(c[timestamp]["systems"],
                                  LAMBDA s : s["system"] \in Range(systems))))
         @@ [backend |-> FALSE]
    ELSE BackendGetSystems(kind, coll, fs, timestamp, systems) @@ [backend |-> TRUE]

\* a variant of CacheAfterGetSystems that never stores the list
CacheNeverStored(c, timestamp, systems, r) ==
    IF r.backend /\ systems = <<>> THEN WithTimestamp(c, timestamp) ELSE c

\* a variant of CacheAfterGetSystems that stores the list of a subset too
CacheAlwaysStored(c, timestamp, systems, r) ==
    IF ~ r.backend \/ r.err # "none" THEN c
    ELSE Store(WithTimestamp(c, timestamp), timestamp, "systems", r.val)

\* self.cache after get_systems gave r to the caller
CacheAfterGetSystems(c, timestamp, systems, r) ==
    IF ~ r.backend \/ systems # <<>> THEN c
    ELSE IF r.err # "none" THEN WithTimestamp(c, timestamp)
    ELSE Store(WithTimestamp(c, timestamp), timestamp, "systems", r.val)

\* Retriever.get_all_features
AllFeaturesResult(c, kind, coll, fs, timestamp) ==
    IF Cached(c, timestamp, "all-features")
    THEN Returned(c[timestamp]["all-features"]) @@ [backend |-> FALSE]
    ELSE BackendGetAllFeatures(kind, coll, fs, timestamp) @@ [backend |-> TRUE]

\* a variant of CacheAfterGetAllFeatures that stores what a failed call left
CacheStoredOnError(c, timestamp, r) ==
    IF ~ r.backend THEN c
    ELSE Store(WithTimestamp(c, timestamp), timestamp, "all-features", r.val)

\* self.cache after get_all_features gave r to the caller
CacheAfterGetAllFeatures(c, timestamp, r) ==
    IF ~ r.backend THEN c
    ELSE IF r.err # "none" THEN WithTimestamp(c, timestamp)
    ELSE Store(WithTimestamp(c, timestamp), timestamp, "all-features", r.val)

---------------------------------------------------------------------------
\* The Retriever under check: one instance over a static backend.

\* number of calls made on one instance
MaxCalls == 3

TS1 == "2025-01-01"
TS2 == "2025-01-02"
Timestamps == {TS1, TS2}
Systems == {"a", "b"}
\* the systems argument of get_systems
Filters == {<<>>, <<"a">>, <<"b", "a">>}

SystemDoc(timestamp, system, rev) ==
    [timestamp |-> FromIsoFormat(timestamp), system |-> system, rev |-> rev]
AllFeaturesDoc(timestamp, rev) ==
    [timestamp |-> FromIsoFormat(timestamp), all_features |-> TRUE, cmds |-> rev]

\* one system document per system and one all-features document
CollectionOneEach ==
    <<SystemDoc(TS1, "a", 1), AllFeaturesDoc(TS1, 1), SystemDoc(TS1, "b", 1),
      SystemDoc(TS2, "a", 2) @@ [all_features |-> FALSE]>>
\* two documents of system a and two all-features documents under TS1,
\* nothing under TS2
CollectionSeveral ==
    <<SystemDoc(TS1, "a", 1), SystemDoc(TS1, "b", 1), SystemDoc(TS1, "a", 2),
      AllFeaturesDoc(TS1, 1), AllFeaturesDoc(TS1, 2)>>
Collections == {CollectionOneEach, CollectionSeveral}

File(timestamp, name, json) == [dir |-> timestamp, name |-> name, json |-> json]
FilesOneEach ==
    <<File(TS1, <<"a", JSON>>, [system |-> "a", rev |-> 1]),
      File(TS1, ALL_FEATURES_FILE, [all_features |-> TRUE, cmds |-> 1]),
      File(TS1, <<"b", JSON>>, [system |-> "b", rev |-> 1]),
      File(TS2, <<"a", JSON>>, [system |-> "a", rev |-> 2])>>
\* a file that is no json, no all-features.json and no directory TS2
FilesSparse ==
    <<File(TS1, <<"b", JSON>>, [system |-> "b", rev |-> 1]),
      File(TS1, <<"a", ".txt">>, [system |-> "a", rev |-> 1])>>
Directories == {FilesOneEach, FilesSparse}

InitRetriever ==
    /\ ReplaceIdle
    /\ ExtractIdle
    /\ QueryIdle
    /\ \/ rkind = "mongo" /\ collection \in Collections /\ dirFiles = <<>>
       \/ rkind = "dir" /\ collection = <<>> /\ dirFiles \in Directories
    /\ cache = <<>>
    /\ rcall = NoCall
    /\ scans = [ts \in Timestamps |-> [systems |-> 0, all |-> 0]]
    /\ ncalls = 0

CanCall == rkind \in {"mongo", "dir"} /\ ncalls < MaxCalls

Call(op, timestamp, system, systems, r) ==
    [op |-> op, ts |-> timestamp, system |-> system, systems |-> systems,
     err |-> r.err, val |-> r.val, backend |-> r.backend]

GetSingleJson ==
    /\ CanCall
    /\ \E timestamp \in Timestamps, system \in Systems :
         LET r == SingleJsonResult(cache, rkind, collection, dirFiles, timestamp, system)
         IN rcall' = Call("get_single_json", timestamp, system, <<>>, r)
    /\ ncalls' = ncalls + 1
    /\ UNCHANGED <<rkind, collection, dirFiles, cache, scans>>
    /\ UNCHANGED <<replaceVars, extractVars, queryVars>>

GetSystems ==
    /\ CanCall
    /\ \E timestamp \in Timestamps, systems \in Filters :
         LET r == SystemsResult(cache, rkind, collection, dirFiles, timestamp, systems)
         IN /\ rcall' = Call("get_systems", timestamp, "", systems, r)
            /\ cache' = CacheAfterGetSystems(cache, timestamp, systems, r)
            /\ scans' = IF r.backend /\ systems = <<>> /\ r.err = "none"
                        THEN [scans EXCEPT ![timestamp].systems = @ + 1]
                        ELSE scans
    /\ ncalls' = ncalls + 1
    /\ UNCHANGED <<rkind, collection, dirFiles>>
    /\ UNCHANGED <<replaceVars, extractVars, queryVars>>

GetAllFeatures ==
    /\ CanCall
    /\ \E timestamp \in Timestamps :
         LET r == AllFeaturesResult(cache, rkind, collection, dirFiles, timestamp)
         IN /\ rcall' = Call("get_all_features", timestamp, "", <<>>, r)
            /\ cache' = CacheAfterGetAllFeatures(cache, timestamp, r)
            /\ scans' = IF r.backend /\ r.err = "none"
                        THEN [scans EXCEPT ![timestamp].all = @ + 1]
                        ELSE scans
    /\ ncalls' = ncalls + 1
    /\ UNCHANGED <<rkind, collection, dirFiles>>
    /\ UNCHANGED <<replaceVars, extractVars, queryVars>>

NextRetriever == GetSingleJson \/ GetSystems \/ GetAllFeatures

SpecRetriever == InitRetriever /\ [][NextRetriever]_vars

---------------------------------------------------------------------------
\* Claims on the Retriever

\* the number of documents the backend holds for (timestamp, system)
Held(timestamp, system) ==
    IF rkind = "mongo"
    THEN Len(Find(collection, [timestamp |-> FromIsoFormat(timestamp), system |-> system]))
    ELSE IF Exists(dirFiles, timestamp, SysPath(system)) THEN 1 ELSE 0

\* C8: whenever the backend holds zero or several documents for
\* (timestamp, system), get_single_json(timestamp, system) fails, whatever
\* calls came before it on the instance.
C8_SingleJsonNeedsExactlyOne ==
    (rcall.op = "get_single_json" /\ Held(rcall.ts, rcall.system) # 1)
        => rcall.err # "none"

IsFullScan(call) == call.op = "get_systems" /\ call.systems = <<>>

\* C9: a full scan of a timestamp, and its all-features retrieval, succeeds
\* at most once per instance; once the list (the all-features dictionary)
\* is cached, it stays what the first successful call returned, and every
\* later unfiltered get_systems (get_all_features) of the timestamp returns
\* it without calling the backend.
C9_ReadThroughCaching ==
    /\ [](\A ts \in DOMAIN scans : scans[ts].systems <= 1 /\ scans[ts].all <= 1)
    /\ [][\A ts \in Timestamps :
            /\ (~ Cached(cache, ts, "systems") /\ Cached(cache', ts, "systems"))
                 => IsFullScan(rcall') /\ rcall'.ts = ts
                    /\ rcall'.val = cache'[ts]["systems"]
            /\ Cached(cache, ts, "systems")
                 => /\ Cached(cache', ts, "systems")
                    /\ cache'[ts]["systems"] = cache[ts]["systems"]
                    /\ (IsFullScan(rcall') /\ rcall'.ts = ts)
                         => /\ rcall'.err = "none" /\ ~ rcall'.backend
                            /\ rcall'.val = cache[ts]["systems"]
                            /\ scans' = scans
            /\ (~ Cached(cache, ts, "all-features") /\ Cached(cache', ts, "all-features"))
                 => rcall'.op = "get_all_features" /\ rcall'.ts = ts
                    /\ rcall'.val = cache'[ts]["all-features"]
            /\ Cached(cache, ts, "all-features")
                 => /\ Cached(cache', ts, "all-features")
                    /\ cache'[ts]["all-features"] = cache[ts]["all-features"]
                    /\ (rcall'.op = "get_all_features" /\ rcall'.ts = ts)
                         => /\ rcall'.err = "none" /\ ~ rcall'.backend
                            /\ rcall'.val = cache[ts]["all-features"]
                            /\ scans' = scans
         ]_vars

\* C9 witness: the third call is an unfiltered get_systems answered from
\* the cache with the two documents the one scan found, and the
\* all-features dictionary is cached as well
C9_Witness ==
    /\ IsFullScan(rcall) /\ rcall.err = "none" /\ ~ rcall.backend
    /\ Len(rcall.val) = 2
    /\ scans[rcall.ts].systems = 1
    /\ scans[rcall.ts].all = 1
    /\ ncalls = 3

\* what the backend returns for an unfiltered scan of timestamp
FullScan(timestamp) == BackendGetSystems(rkind, collection, dirFiles, timestamp, <<>>)

\* C10: get_single_json and get_systems with a non-empty subset leave the
\* cache as it is; a cached 'systems' list is the complete list of the
\* backend's unfiltered scan, and so is what an unfiltered get_systems
\* returns.
C10_CacheCompleteness ==
    /\ [](\A ts \in DOMAIN cache :
            "systems" \in DOMAIN cache[ts]
                => FullScan(ts).err = "none" /\ cache[ts]["systems"] = FullScan(ts).val)
    /\ []((IsFullScan(rcall) /\ rcall.err = "none") => rcall.val = FullScan(rcall.ts).val)
    /\ [][(rcall'.op = "get_single_json"
            \/ (rcall'.op = "get_systems" /\ rcall'.systems # <<>>))
           => cache' = cache]_vars

\* C10 witness: after a filtered get_systems that the backend answered with
\* the one document of its subset, an unfiltered get_systems returns both
\* documents of the timestamp
C10_Witness ==
    /\ IsFullScan(rcall) /\ rcall.err = "none" /\ rcall.backend
    /\ Len(rcall.val) = 2
    /\ ncalls = 2
    /\ scans[rcall.ts].systems = 1
    /\ \A ts \in Timestamps : scans[ts].all = 0

\* the cache key a call fills: 'systems' for an unfiltered get_systems,
\* 'all-features' for get_all_features, none for the other calls
KeyOf(call) ==
    IF IsFullScan(call) THEN "systems"
    ELSE IF call.op = "get_all_features" THEN "all-features"
    ELSE ""

OtherKey(key) == IF key = "systems" THEN "all-features" ELSE "systems"

\* what the backend gives for the call
BackendResult(call) ==
    IF KeyOf(call) = "systems" THEN FullScan(call.ts)
    ELSE BackendGetAllFeatures(rkind, collection, dirFiles, call.ts)

\* C29: a get_all_features or unfiltered get_systems in which the backend
\* raises gives the error to the caller and stores no value under its key;
\* the cached values of the other timestamps and the other entry of the
\* timestamp stay as they were; and as long as the key holds no value, such a
\* call consults the backend and gives its result.
C29_FailureNotCached ==
    [][(rcall' # rcall \/ ncalls' # ncalls) /\ KeyOf(rcall') # "" =>
         LET ts == rcall'.ts
             key == KeyOf(rcall')
         IN /\ ~ Cached(cache, ts, key) =>
                  /\ rcall'.backend
                  /\ rcall'.err = BackendResult(rcall').err
                  /\ rcall'.val = BackendResult(rcall').val
            /\ (rcall'.backend /\ rcall'.err # "none") =>
                  /\ BackendResult(rcall').err = rcall'.err
                  /\ ~ Cached(cache', ts, key)
                  /\ Cached(cache', ts, OtherKey(key)) <=> Cached(cache, ts, OtherKey(key))
                  /\ Cached(cache, ts, OtherKey(key)) =>
                        cache'[ts][OtherKey(key)] = cache[ts][OtherKey(key)]
                  /\ DOMAIN cache' \ {ts} = DOMAIN cache \ {ts}
                  /\ \A other \in DOMAIN cache \ {ts} : cache'[other] = cache[other]
      ]_vars

\* C29 witness: the third call is a get_all_features in which the backend
\* raised, no all-features value was ever stored, and the systems of the
\* same timestamp are cached
C29_Witness ==
    /\ rcall.op = "get_all_features" /\ rcall.backend /\ rcall.err # "none"
    /\ ncalls = 3
    /\ ~ Cached(cache, rcall.ts, "all-features")
    /\ Cached(cache, rcall.ts, "systems")
    /\ scans[rcall.ts].all = 0

---------------------------------------------------------------------------
\* query_features.py: the queries over system documents. A test is a
\* function on strings (suite, task_name, variant, success and the feature
\* kinds it has); a feature dictionary is a function from kinds to lists.

KNOWN_FEATURES == <<"cmds", "endpoints", "ensures", "tasks", "changes", "interfaces">>

\* an optional argument: None, or the value given
None == [given |-> FALSE]
Some(v) == [given |-> TRUE, value |-> v]

TaskId(suite, task_name) == [suite |-> suite, task_name |-> task_name]
TaskIdVariant(suite, task_name, variant) ==
    [suite |-> suite, task_name |-> task_name, variant |-> variant]

\* TaskIdEq as if a TaskId stood for the variant ''
TaskIdEqExact(a, b) ==
    LET va == IF "variant" \in DOMAIN a THEN a.variant ELSE ""
        vb == IF "variant" \in DOMAIN b THEN b.variant ELSE ""
    IN a.suite = b.suite /\ a.task_name = b.task_name /\ va = vb

\* TaskId.__eq__ and TaskIdVariant.__eq__: the variants are compared only
\* between two TaskIdVariant
TaskIdEq(a, b) ==
    IF "variant" \in DOMAIN a /\ "variant" \in DOMAIN b
    THEN a.suite = b.suite /\ a.task_name = b.task_name /\ a.variant = b.variant
    ELSE a.suite = b.suite /\ a.task_name = b.task_name

\* TaskIdVariant(test['suite'], test['task_name'], test['variant'])
IdOf(test) == TaskIdVariant(test["suite"], test["task_name"], test["variant"])

\* x in tasks, tasks a list or a set of ids
InTasks(x, tasks) == \E e \in tasks : TaskIdEq(x, e)

\* for feature in items: if feature not in list: list.append(feature)
RECURSIVE AppendNew(_, _)
AppendNew(list, items) ==
    IF items = <<>> THEN list
    ELSE AppendNew(IF Head(items) \in Range(list) THEN list ELSE Append(list, Head(items)),
                   Tail(items))

\* the body of "for test in system_json['tests']" for a test that is not skipped
AddTest(features, test) ==
    LET kinds == {k \in DOMAIN test \cap Range(KNOWN_FEATURES) : test[k] # <<>>}
    IN [k \in DOMAIN features \cup kinds |->
            AppendNew(IF k \in DOMAIN features THEN features[k] ELSE <<>>,
                      IF k \in kinds THEN test[k] ELSE <<>>)]

RECURSIVE ConsolidateFrom(_, _, _, _)
ConsolidateFrom(features, tests, include_tasks, exclude_tasks) ==
    IF tests = <<>> THEN features
    ELSE LET test == Head(tests)
             skip == \/ include_tasks.given /\ ~ InTasks(IdOf(test), include_tasks.value)
                     \/ exclude_tasks.given /\ InTasks(IdOf(test), exclude_tasks.value)
         IN ConsolidateFrom(IF skip THEN features ELSE AddTest(features, test),
                            Tail(tests), include_tasks, exclude_tasks)

\* consolidate_system_features
ConsolidateSystemFeatures(system_json, include_tasks, exclude_tasks) ==
    ConsolidateFrom(<<>>, system_json["tests"], include_tasks, exclude_tasks)

\* minus with a kind that second lacks dropped from the result
MinusDroppingMissing(first, second) ==
    LET keep == {f \in DOMAIN first \cap DOMAIN second :
                    \E i \in DOMAIN first[f] : first[f][i] \notin Range(second[f])}
    IN [f \in keep |-> SelectSeq(first[f], LAMBDA item : item \notin Range(second[f]))]

\* minus without the test "if m": every kind of first is in the result
MinusKeepingEmpty(first, second) ==
    [f \in DOMAIN first |->
        IF f \notin DOMAIN second THEN first[f]
        ELSE SelectSeq(first[f], LAMBDA item : item \notin Range(second[f]))]

\* minus(first, second)
Minus(first, second) ==
    LET m(f) == SelectSeq(first[f], LAMBDA item : item \notin Range(second[f]))
        keep == {f \in DOMAIN first : f \notin DOMAIN second \/ m(f) # <<>>}
    IN [f \in keep |-> IF f \notin DOMAIN second THEN first[f] ELSE m(f)]

\* check_duplicate((task, system_json)): the id of the task, or None
CheckDuplicate(task, system_json) ==
    LET task_id == TaskId(task["suite"], task["task_name"])
        features == ConsolidateSystemFeatures(system_json, None, Some({task_id}))
        to_check == [k \in DOMAIN task \cap Range(KNOWN_FEATURES) |-> task[k]]
        mns == Minus(to_check, features)
    IN IF DOMAIN to_check # {} /\ DOMAIN mns = {} THEN Some(IdOf(task)) ELSE None

\* x[key] if key in x else ''
FieldOr(x, key) == IF key \in DOMAIN x THEN x[key] ELSE ""

\* SystemFeatures(schema_version=..., system=..., scenarios=..., env_variables=...)
\* with system_json['tests'] = tests
WithTests(system_json, tests) ==
    [schema_version |-> FieldOr(system_json, "schema_version"),
     system |-> FieldOr(system_json, "system"),
     scenarios |-> FieldOr(system_json, "scenarios"),
     env_variables |-> FieldOr(system_json, "env_variables"),
     tests |-> tests]

\* the system_json that dup hands to check_duplicate
DupSystemJson(system_json, remove_failed) ==
    IF remove_failed
    THEN WithTests(system_json, SelectSeq(system_json["tests"], LAMBDA task : task["success"]))
    ELSE system_json

\* dup, on the document get_single_json returned
Dup(system_json, remove_failed) ==
    LET sj == DupSystemJson(system_json, remove_failed)
        results == [i \in DOMAIN sj["tests"] |-> CheckDuplicate(sj["tests"][i], sj)]
        reported == SelectSeq(results, LAMBDA r : r.given)
    IN [i \in DOMAIN reported |-> reported[i].value]

---------------------------------------------------------------------------
\* Inputs of the queries

CmdX == [cmd |-> "x"]
CmdY == [cmd |-> "y"]
ChangeC == [kind |-> "c", snap_types |-> <<"app">>]

\* the feature kinds of a test: none; a kind with an empty list (the
\* extractor always writes 'ensures' and 'changes'); one or two kinds
FeatureOptions ==
    {<<>>, [cmds |-> <<>>], [ensures |-> <<>>, changes |-> <<>>],
     [cmds |-> <<CmdX>>], [cmds |-> <<CmdY, CmdX>>],
     [cmds |-> <<CmdX>>, changes |-> <<ChangeC>>]}

QTest(k, success, feats) ==
    [suite |-> k[1], task_name |-> k[2], variant |-> k[3], success |-> success] @@ feats

TestOptions(k) == {QTest(k, ok, f) : ok \in BOOLEAN, f \in FeatureOptions}

\* the test lists with at most one test per key, in the order of keys
RECURSIVE TestLists(_)
TestLists(keys) ==
    IF keys = <<>> THEN {<<>>}
    ELSE LET rest == TestLists(Tail(keys))
         IN rest \cup {<<t>> \o r : t \in TestOptions(Head(keys)), r \in rest}

SystemJson(system, tests) == [system |-> system, tests |-> tests]

DupDocuments == {SystemJson("a", tests) : tests \in TestLists(AllKeys)}

InitQuery ==
    /\ ReplaceIdle
    /\ ExtractIdle
    /\ RetrieverIdle
    /\ QueryIdle

\* query_features.py dup -t <timestamp> -s <system> [--remove-failed]
DupCall ==
    /\ qcall = NoQuery
    /\ \E system_json \in DupDocuments, remove_failed \in BOOLEAN :
         qcall' = [op |-> "dup", system_json |-> system_json,
                   remove_failed |-> remove_failed,
                   val |-> Dup(system_json, remove_failed)]
    /\ UNCHANGED rescall
    /\ UNCHANGED <<replaceVars, extractVars, retrieverVars>>

---------------------------------------------------------------------------
\* Claims on dup

\* the tests dup checked
Checked == DupSystemJson(qcall.system_json, qcall.remove_failed)["tests"]

Reported(t) == IdOf(t) \in Range(qcall.val)

\* the feature kinds of a test
KindsOf(t) == DOMAIN t \cap Range(KNOWN_FEATURES)

\* the tests of another task than t's
OtherTasks(t) ==
    {u \in Range(Checked) : u["suite"] # t["suite"] \/ u["task_name"] # t["task_name"]}

\* feature `item` of kind k occurs in a test of another task than t's
CoveredElsewhere(t, k, item) ==
    \E u \in OtherTasks(t) : k \in DOMAIN u /\ item \in Range(u[k])

\* C11: if dup reports test t, every feature of t, of every kind, occurs in
\* some test of the report whose (suite, task_name) differs from t's.
C11_DupSound ==
    qcall.op = "dup" =>
        \A t \in Range(Checked) :
            Reported(t) => \A k \in KindsOf(t) : \A item \in Range(t[k]) :
                               CoveredElsewhere(t, k, item)

\* C11 witness: a test with two features of two kinds is reported, next to
\* a test that is not
C11_Witness ==
    /\ qcall.op = "dup"
    /\ \E t \in Range(Checked) :
          /\ Reported(t)
          /\ "cmds" \in DOMAIN t /\ "changes" \in DOMAIN t
          /\ t["cmds"] # <<>> /\ t["changes"] # <<>>
    /\ \E t \in Range(Checked) : KindsOf(t) # {} /\ ~ Reported(t)

\* C12: a test whose feature lists are all empty or absent is never
\* reported by dup.
C12_DupNeedsAFeature ==
    qcall.op = "dup" =>
        \A t \in Range(Checked) :
            (\A k \in KindsOf(t) : t[k] = <<>>) => ~ Reported(t)

\* the features of kind k in the tests of another task than t's
FeaturesElsewhere(t, k) ==
    UNION {Range(u[k]) : u \in {v \in OtherTasks(t) : k \in DOMAIN v}}

\* C13: when dup checks t, the covering set is made of the features of the
\* tests of every other task and of no variant of t's own task; so a test
\* with a feature that only variants of its task share is not reported.
C13_VariantsNeverCover ==
    qcall.op = "dup" =>
        \A t \in Range(Checked) :
            LET covering == ConsolidateSystemFeatures(
                                DupSystemJson(qcall.system_json, qcall.remove_failed),
                                None, Some({TaskId(t["suite"], t["task_name"])}))
            IN /\ \A k \in Range(KNOWN_FEATURES) :
                     (IF k \in DOMAIN covering THEN Range(covering[k]) ELSE {})
                         = FeaturesElsewhere(t, k)
               /\ (\E k \in KindsOf(t) : \E item \in Range(t[k]) :
                      /\ item \notin FeaturesElsewhere(t, k)
                      /\ \E u \in Range(Checked) \ OtherTasks(t) :
                            u # t /\ k \in DOMAIN u /\ item \in Range(u[k]))
                  => ~ Reported(t)

\* C13 witness: two variants of one task have the same feature, the test
\* of the other task does not have it, and dup reports none of the three
C13_Witness ==
    /\ qcall.op = "dup"
    /\ Len(Checked) = 3
    /\ "cmds" \in DOMAIN Checked[1] /\ "cmds" \in DOMAIN Checked[2]
    /\ Checked[1]["cmds"] = <<CmdX>> /\ Checked[2]["cmds"] = <<CmdX>>
    /\ DOMAIN Checked[3] \cap Range(KNOWN_FEATURES) = {"ensures", "changes"}
    /\ qcall.val = <<>>

---------------------------------------------------------------------------
\* query_features.py: diff

\* list_tasks(system_json, remove_failed): the set of ids
ListTasks(system_json, remove_failed) ==
    {IdOf(test) : test \in {t \in Range(system_json["tests"]) : ~ remove_failed \/ t["success"]}}

\* diff, on the documents get_single_json returned
Diff(system_json1, system_json2, remove_failed, only_same) ==
    LET tasks1 == ListTasks(system_json1, remove_failed)
        tasks2 == ListTasks(system_json2, remove_failed)
        include_tasks1 == IF ~ (remove_failed \/ only_same) THEN None
                          ELSE IF only_same THEN Some(tasks1 \cap tasks2)
                          ELSE Some(tasks1)
        include_tasks2 == IF ~ (remove_failed \/ only_same) THEN None
                          ELSE IF only_same THEN Some(tasks1 \cap tasks2)
                          ELSE Some(tasks2)
        features1 == ConsolidateSystemFeatures(system_json1, include_tasks1, None)
        features2 == ConsolidateSystemFeatures(system_json2, include_tasks2, None)
    IN Minus(features1, features2)

\* the documents diff is given: tests with one or two features; the key K1
\* can occur twice (compose_system takes every file whose name contains the
\* system string)
DiffFeatureOptions ==
    {[cmds |-> <<CmdX>>], [cmds |-> <<CmdY>>, changes |-> <<ChangeC>>]}

DiffTestOptions(k) == {QTest(k, ok, f) : ok \in BOOLEAN, f \in DiffFeatureOptions}

RECURSIVE DiffTestLists(_)
DiffTestLists(keys) ==
    IF keys = <<>> THEN {<<>>}
    ELSE LET rest == DiffTestLists(Tail(keys))
         IN rest \cup {<<t>> \o r : t \in DiffTestOptions(Head(keys)), r \in rest}

DiffDocuments(system) == {SystemJson(system, tests) : tests \in DiffTestLists(<<K1, K1, K2>>)}

\* query_features.py diff systems -t1 .. -s1 .. -t2 .. -s2 .. [--remove-failed] [--only-same]
DiffCall ==
    /\ qcall = NoQuery
    /\ \E system_json1 \in DiffDocuments("a"), system_json2 \in DiffDocuments("a") \cup DiffDocuments("b"),
          remove_failed \in BOOLEAN, only_same \in BOOLEAN :
         qcall' = [op |-> "diff", system_json1 |-> system_json1, system_json2 |-> system_json2,
                   remove_failed |-> remove_failed, only_same |-> only_same,
                   val |-> Diff(system_json1, system_json2, remove_failed, only_same)]
    /\ UNCHANGED rescall
    /\ UNCHANGED <<replaceVars, extractVars, retrieverVars>>

---------------------------------------------------------------------------
\* Claims on diff

\* the tests of one side when the failed ones are removed
SuccessOnly(tests, remove_failed) ==
    IF remove_failed THEN SelectSeq(tests, LAMBDA t : t["success"]) ELSE tests

KeySet(tests) == {TestKey(tests[i]) : i \in DOMAIN tests}

\* the tests whose key is in keys
WithKeyIn(tests, keys) == SelectSeq(tests, LAMBDA t : TestKey(t) \in keys)

\* what diff is claimed to return for the arguments of qcall
ClaimedDiff ==
    LET side1 == SuccessOnly(qcall.system_json1["tests"], qcall.remove_failed)
        side2 == SuccessOnly(qcall.system_json2["tests"], qcall.remove_failed)
        common == KeySet(side1) \cap KeySet(side2)
        tests1 == IF qcall.only_same THEN WithKeyIn(side1, common) ELSE side1
        tests2 == IF qcall.only_same THEN WithKeyIn(side2, common) ELSE side2
    IN Minus(ConsolidateSystemFeatures(SystemJson("", tests1), None, None),
             ConsolidateSystemFeatures(SystemJson("", tests2), None, None))

\* C14: diff is minus(consolidate(tests1'), consolidate(tests2')), each
\* side restricted to its successful tests when remove_failed and then,
\* when only_same, to the tests whose key is on both sides; the diff of a
\* document with itself is {}.
C14_DiffOfRestrictedSides ==
    qcall.op = "diff" =>
        /\ qcall.val = ClaimedDiff
        /\ qcall.system_json1 = qcall.system_json2 => qcall.val = <<>>

---------------------------------------------------------------------------
\* minus, called on any two feature dictionaries (check_duplicate hands it
\* the kinds of a test, diff_all_features the lists of the all-features
\* document: lists that can be empty)

FeatureLists(a, b) == {<<>>, <<a>>, <<b>>, <<a, b>>}

\* dictionaries with the kinds cmds and changes, each absent, empty or not
FeatureDicts ==
    {c @@ d : c \in {<<>>} \cup {[cmds |-> l] : l \in FeatureLists(CmdX, CmdY)},
              d \in {<<>>} \cup {[changes |-> l] : l \in FeatureLists(ChangeC, [kind |-> "d"])}}

MinusCall ==
    /\ qcall = NoQuery
    /\ \E first \in FeatureDicts, second \in FeatureDicts :
         qcall' = [op |-> "minus", first |-> first, second |-> second,
                   val |-> Minus(first, second)]
    /\ UNCHANGED rescall
    /\ UNCHANGED <<replaceVars, extractVars, retrieverVars>>

\* C15: no kind of minus(a, b) maps to an empty list, whatever a and b.
C15_MinusHasNoEmptyList ==
    qcall.op = "minus" => \A k \in DOMAIN qcall.val : qcall.val[k] # <<>>

\* C16: minus(X, X) is the empty dict.
C16_MinusSelfIsEmpty ==
    (qcall.op = "minus" /\ qcall.first = qcall.second) => qcall.val = <<>>

\* C16 witness: X has two kinds with two features each
C16_Witness ==
    /\ qcall.op = "minus"
    /\ qcall.first = qcall.second
    /\ DOMAIN qcall.first = {"cmds", "changes"}
    /\ \A k \in DOMAIN qcall.first : Len(qcall.first[k]) = 2
    /\ qcall.val = <<>>

---------------------------------------------------------------------------
\* query_features.py: feat_sys and diff_all_features

\* feat_sys, on the document get_single_json returned; suite, task and
\* variant are "" when not given
FeatSys(system_json, remove_failed, suite, task, variant) ==
    LET sj == IF suite # "" \/ task # "" \/ variant # ""
              THEN WithTests(system_json,
                       SelectSeq(system_json["tests"], LAMBDA test :
                           /\ (suite = "" \/ test["suite"] = suite)
                           /\ (task = "" \/ test["task_name"] = task)
                           /\ (variant = "" \/ test["variant"] = variant)))
              ELSE system_json
        include_tasks == IF remove_failed THEN Some(ListTasks(sj, remove_failed)) ELSE None
    IN ConsolidateSystemFeatures(sj, include_tasks, None)

\* sys_features[kind] of the defaultdict feat_sys returned
SysFeatures(sys_features, kind) ==
    IF kind \in DOMAIN sys_features THEN sys_features[kind] ELSE <<>>

\* a task feature matched on its kind alone
TaskMatchesByKind(af, sf) == af["kind"] = sf["kind"]

\* the conditions of lines 386, 388 and 390
TaskMatches(af, sf) == af["kind"] = sf["kind"] /\ af["last_status"] = sf["last_status"]
ChangeMatches(af, sf) == af["kind"] = sf["kind"]
InterfaceMatches(af, sf) == af["name"] = sf["name"]

\* the condition of the list comprehension of `kind` (lines 385-390)
FeatureMatches(kind, af, sf) ==
    CASE kind = "tasks" -> TaskMatches(af, sf)
      [] kind = "changes" -> ChangeMatches(af, sf)
      [] kind = "interfaces" -> InterfaceMatches(af, sf)
      [] OTHER -> af = sf

\* [af for af in all_features[kind] if not any(... for sf in sys_features[kind])]
Unmatched(all_features, sys_features, kind) ==
    SelectSeq(all_features[kind], LAMBDA af :
        ~ \E i \in DOMAIN SysFeatures(sys_features, kind) :
              FeatureMatches(kind, af, SysFeatures(sys_features, kind)[i]))

\* diff['tasks'] = tasks and so on, for the lists that are not empty
WithNonEmpty(diff, kind, list) ==
    IF list # <<>> THEN (kind :> list) @@ Del(diff, {kind}) ELSE diff

\* diff_all_features, on the document get_single_json returned and the
\* dictionary get_all_features returned: [err, val]
DiffAllFeatures(system_json, all_features, remove_failed) ==
    IF ~ Range(KNOWN_FEATURES) \subseteq DOMAIN all_features THEN Raised("KeyError")
    ELSE LET sys_features == FeatSys(system_json, remove_failed, "", "", "")
             diff == Minus([cmds |-> all_features["cmds"], ensures |-> all_features["ensures"],
                            endpoints |-> all_features["endpoints"]], sys_features)
             tasks == Unmatched(all_features, sys_features, "tasks")
             changes == Unmatched(all_features, sys_features, "changes")
             interfaces == Unmatched(all_features, sys_features, "interfaces")
         IN Returned(WithNonEmpty(WithNonEmpty(WithNonEmpty(diff, "tasks", tasks),
                                               "changes", changes),
                                  "interfaces", interfaces))

\* the features of the tests, as featextractor writes them, and of the
\* all-features document, as feattranslator writes them
EndpointP == [method |-> "GET", path |-> "/p"]
EnsureM == [manager |-> "m", function |-> "f"]
TaskFeat(kind, last_status, snap_types) ==
    [kind |-> kind, last_status |-> last_status, snap_types |-> snap_types]
InterfaceI == [name |-> "i", plug_snap_type |-> "app", slot_snap_type |-> "snapd"]

DiffAllFeatureOptions ==
    {[cmds |-> <<CmdX>>, tasks |-> <<TaskFeat("k1", "Done", <<"app">>)>>],
     [tasks |-> <<TaskFeat("k1", "Doing", <<>>)>>, changes |-> <<ChangeC>>],
     [interfaces |-> <<InterfaceI>>, ensures |-> <<[manager |-> "m", functions |-> <<"f">>]>>],
     [endpoints |-> <<EndpointP>>, ensures |-> <<EnsureM>>],
     [changes |-> <<>>, ensures |-> <<>>]}

DiffAllTestOptions(k) == {QTest(k, ok, f) : ok \in BOOLEAN, f \in DiffAllFeatureOptions}

RECURSIVE DiffAllTestLists(_)
DiffAllTestLists(keys) ==
    IF keys = <<>> THEN {<<>>}
    ELSE LET rest == DiffAllTestLists(Tail(keys))
         IN rest \cup {<<t>> \o r : t \in DiffAllTestOptions(Head(keys)), r \in rest}

DiffAllDocuments == {SystemJson("a", tests) : tests \in DiffAllTestLists(<<K1, K1, K3>>)}

AllFeaturesFull ==
    [cmds |-> <<CmdX, CmdY>>,
     ensures |-> <<EnsureM>>,
     endpoints |-> <<EndpointP, EndpointP @@ [action |-> "a"]>>,
     tasks |-> <<[kind |-> "k1", last_status |-> "Done"], [kind |-> "k1", last_status |-> "Error"],
                 [kind |-> "k2", last_status |-> "Done"]>>,
     changes |-> <<[kind |-> "c"], [kind |-> "d"]>>,
     interfaces |-> <<[name |-> "i"], [name |-> "j"]>>]

AllFeaturesEmpty ==
    [cmds |-> <<>>, ensures |-> <<>>, endpoints |-> <<>>, tasks |-> <<>>,
     changes |-> <<>>, interfaces |-> <<>>]

\* an all-features document without the kind interfaces
AllFeaturesPartial == Del(AllFeaturesFull, {"interfaces"})

AllFeaturesDocuments == {AllFeaturesFull, AllFeaturesEmpty, AllFeaturesPartial}

\* query_features.py diff all-features -t .. -s .. [--remove-failed]
DiffAllCall ==
    /\ qcall = NoQuery
    /\ \E system_json \in DiffAllDocuments, all_features \in AllFeaturesDocuments,
          remove_failed \in BOOLEAN :
         LET r == DiffAllFeatures(system_json, all_features, remove_failed)
         IN qcall' = [op |-> "diff_all_features", system_json |-> system_json,
                      all_features |-> all_features, remove_failed |-> remove_failed,
                      err |-> r.err, val |-> r.val]
    /\ UNCHANGED rescall
    /\ UNCHANGED <<replaceVars, extractVars, retrieverVars>>

---------------------------------------------------------------------------
\* Claims on diff_all_features

\* feature af of the all-features document matches feature sf of a test
MatchesAs(kind, af, sf) ==
    CASE kind = "tasks" ->
            /\ "kind" \in DOMAIN sf /\ "last_status" \in DOMAIN sf
            /\ af["kind"] = sf["kind"] /\ af["last_status"] = sf["last_status"]
      [] kind = "changes" -> "kind" \in DOMAIN sf /\ af["kind"] = sf["kind"]
      [] kind = "interfaces" -> "name" \in DOMAIN sf /\ af["name"] = sf["name"]
      [] OTHER -> af = sf

\* no failed test of the document has the key of a successful one (the
\* case in which remove_failed lets a failed test through, see C14)
FailedKeysApart(tests) ==
    \A i, j \in DOMAIN tests :
        (tests[i]["success"] /\ ~ tests[j]["success"]) => TestKey(tests[i]) # TestKey(tests[j])

---------------------------------------------------------------------------
\* State.get_snap_types_from_task_id on tasks whose data holds several of the
\* recognized shapes at once

\* the fields a task's data can hold, each with the value it has when present
FullData ==
    ("snap-type" :> "snapd")
    @@ ("snap-setup-task" :> "2")
    @@ ("hook-setup" :> [snap |-> "pc"])
    @@ ("plug" :> [snap |-> "app1"])
    @@ ("slot" :> [snap |-> "core"])
    @@ ("snaps" :> [core |-> [type |-> "os"], pc |-> [type |-> "gadget"]])
    @@ ("snapshot-setup" :> [snap |-> "app1"])
    @@ ("recovery-system-setup-task" :> "3")
    @@ ("recovery-system-setup" :> ("snap-setup-tasks" :> <<"2", "3">>))

\* the forms of data['snap-setup']
SnapSetups ==
    { [type |-> "base"],
      ("side-info" :> [name |-> "core"]),
      ("side-info" :> [name |-> "core"]) @@ [type |-> "base"] }

\* the data of a task that connects a plug of a snap to a slot of the same snap
SelfConnection == [plug |-> [snap |-> "app1"], slot |-> [snap |-> "app1"]]

\* the data of a task that refers to itself, or to task 4, which refers back
Referring ==
    { ("snap-setup-task" :> "1"),
      ("recovery-system-setup-task" :> "1"),
      ("snap-setup-task" :> "4"),
      ("recovery-system-setup" :> ("snap-setup-tasks" :> <<"2", "4">>)) }

\* task['data']: any of the fields together, a connection within one snap, or
\* a reference that comes back to the task
Payloads ==
    {[k \in present |-> FullData[k]] : present \in SUBSET DOMAIN FullData}
    \cup {[k \in present \cup {"snap-setup"} |->
              IF k = "snap-setup" THEN setup ELSE FullData[k]] :
          present \in SUBSET DOMAIN FullData, setup \in SnapSetups}
    \cup {SelfConnection}
    \cup Referring

\* the kinds of the task: one outside TASKS_IGNORE_SNAP_TYPE, one inside
ResolveKinds == {"link-snap", "exec-command"}

\* the tasks the state holds
ResolveTasks ==
    {[kind |-> kind] : kind \in ResolveKinds}
    \cup {[kind |-> kind, data |-> data] : kind \in ResolveKinds, data \in Payloads}

\* a state.json whose task 1 is `task`; tasks 2 and 3 are the ones referred to,
\* task 4 refers to task 1
StateWith(task) ==
    [tasks |->
        ("1" :> task)
     @@ ("2" :> [kind |-> "prepare-snap", data |-> ("snap-type" :> "kernel")])
     @@ ("3" :> [kind |-> "prepare-snap", data |-> ("snap-type" :> "core")])
     @@ ("4" :> [kind |-> "prepare-snap", data |-> ("snap-setup-task" :> "1")]),
     data |->
        [snaps |-> [core |-> [type |-> "os"], pc |-> [type |-> "gadget"],
                    app1 |-> [type |-> "app"]]]]

\* the iteration orders of a set of snap types in this process
ResolveOrders ==
    { <<"os", "gadget", "kernel", "core">>, <<"core", "kernel", "gadget", "os">> }

InitResolve ==
    /\ ReplaceIdle
    /\ ExtractIdle
    /\ RetrieverIdle
    /\ QueryIdle

\* State(state_json).get_snap_types_from_task_id('1')
ResolveCall ==
    /\ rescall = NoQuery
    /\ \E task \in ResolveTasks, order \in ResolveOrders :
         LET st == StateWith(task)
         IN rescall' = [op |-> "get_snap_types_from_task_id", st |-> st,
                        id |-> "1", order |-> order,
                        res |-> GetSnapTypesFromTaskId(st, "1", order, DepthOf(st))]
    /\ UNCHANGED qcall
    /\ UNCHANGED <<replaceVars, extractVars, retrieverVars>>

NextResolve == ResolveCall

SpecResolve == InitResolve /\ [][NextResolve]_vars

---------------------------------------------------------------------------
\* Claims on get_snap_types_from_task_id

\* the shapes in their order of priority: the paths that must be in the data
ShapesInOrder ==
    << {<<"snap-type">>},
       {<<"snap-setup", "type">>},
       {<<"snap-setup", "side-info", "name">>},
       {<<"snap-setup-task">>},
       {<<"hook-setup", "snap">>},
       {<<"plug", "snap">>, <<"slot", "snap">>},
       {<<"snaps">>},
       {<<"snapshot-setup", "snap">>},
       {<<"recovery-system-setup-task">>},
       {<<"recovery-system-setup", "snap-setup-tasks">>} >>

RECURSIVE HasPath(_, _)
HasPath(d, path) ==
    path = <<>> \/ (Head(path) \in DOMAIN d /\ HasPath(d[Head(path)], Tail(path)))

MatchesShape(data, i) == \A path \in ShapesInOrder[i] : HasPath(data, path)

\* the first shape the data matches, 0 when it matches none
FirstShape(data) ==
    IF \E i \in DOMAIN ShapesInOrder : MatchesShape(data, i)
    THEN CHOOSE i \in DOMAIN ShapesInOrder :
            /\ MatchesShape(data, i)
            /\ \A j \in DOMAIN ShapesInOrder : j < i => ~ MatchesShape(data, j)
    ELSE 0

\* the value at the end of a path
RECURSIVE ValueAt(_, _)
ValueAt(d, path) == IF path = <<>> THEN d ELSE ValueAt(d[Head(path)], Tail(path))

\* the dictionary that holds value v at the end of a path
RECURSIVE Nested(_, _)
Nested(path, v) == IF path = <<>> THEN v ELSE Head(path) :> Nested(Tail(path), v)

\* the data reduced to the paths of shape i
OnlyShape(data, i) ==
    [k \in {path[1] : path \in ShapesInOrder[i]} |->
        LET path == CHOOSE p \in ShapesInOrder[i] : p[1] = k
        IN Nested(Tail(path), ValueAt(data, path))]

ResolvedTask == rescall.st["tasks"]["1"]

\* what the resolution gives for the task with `data` in place of its own
ResolutionWith(data) ==
    LET st == StateWith([kind |-> ResolvedTask["kind"], data |-> data])
    IN GetSnapTypesFromTaskId(st, "1", rescall.order, DepthOf(st))

\* C20: a task whose kind is in the exclusion set resolves to the empty list
\* whatever its data; any other task whose data matches a shape resolves to
\* what the first shape it matches, in the order of priority, gives alone.
C20_FirstMatch ==
    rescall.op = "get_snap_types_from_task_id" =>
        IF ResolvedTask["kind"] \in TASKS_IGNORE_SNAP_TYPE
        THEN rescall.res = Ok(<<>>)
        ELSE ("data" \in DOMAIN ResolvedTask /\ FirstShape(ResolvedTask["data"]) # 0) =>
                 rescall.res =
                     ResolutionWith(OnlyShape(ResolvedTask["data"],
                                              FirstShape(ResolvedTask["data"])))

\* C20 witness: a task outside the exclusion set whose data matches the
\* shape snap-setup-task and five of the later ones resolved to the types of
\* the task it refers to.
C20_Witness ==
    /\ rescall.op = "get_snap_types_from_task_id"
    /\ ResolvedTask["kind"] \notin TASKS_IGNORE_SNAP_TYPE
    /\ "data" \in DOMAIN ResolvedTask
    /\ FirstShape(ResolvedTask["data"]) = 4
    /\ Cardinality({i \in 5..10 : MatchesShape(ResolvedTask["data"], i)}) >= 5
    /\ rescall.res = Ok(<<"kernel">>)

\* a task of the exclusion set with data matching shapes resolved
ExcludedKindResolved ==
    /\ rescall.op = "get_snap_types_from_task_id"
    /\ ResolvedTask["kind"] \in TASKS_IGNORE_SNAP_TYPE
    /\ "data" \in DOMAIN ResolvedTask
    /\ FirstShape(ResolvedTask["data"]) # 0

\* C21: a task outside the exclusion set whose data matches none of the
\* shapes, the data being absent or empty included, fails with the not-found
\* error.
C21_NoShapeIsNotFound ==
    (/\ rescall.op = "get_snap_types_from_task_id"
     /\ ResolvedTask["kind"] \notin TASKS_IGNORE_SNAP_TYPE
     /\ ("data" \in DOMAIN ResolvedTask => FirstShape(ResolvedTask["data"]) = 0))
        => rescall.res.err = "NotInStateError"

\* C21 (amended): a task outside the exclusion set that has a data section
\* matching none of the shapes, the empty one included, fails with the
\* not-found error; a task without data section resolves to the empty list.
C21_NoShapeInDataIsNotFound ==
    (/\ rescall.op = "get_snap_types_from_task_id"
     /\ ResolvedTask["kind"] \notin TASKS_IGNORE_SNAP_TYPE)
        => /\ "data" \notin DOMAIN ResolvedTask =>
                  rescall.res.err = "none" /\ rescall.res.val = <<>>
           /\ ("data" \in DOMAIN ResolvedTask /\ FirstShape(ResolvedTask["data"]) = 0)
                  => rescall.res.err = "NotInStateError"

\* C21 witness: a task outside the exclusion set whose data holds a plug
\* without slot, which is no shape, failed with the not-found error.
C21_Witness ==
    /\ rescall.op = "get_snap_types_from_task_id"
    /\ ResolvedTask["kind"] \notin TASKS_IGNORE_SNAP_TYPE
    /\ "data" \in DOMAIN ResolvedTask
    /\ DOMAIN ResolvedTask["data"] = {"plug"}
    /\ rescall.res.err = "NotInStateError"

\* C22: the list a resolution returns holds each snap type at most once, and
\* for a task resolved by its plug and slot it holds the types of the two
\* snaps and nothing else.
C22_SnapTypesAreASet ==
    (rescall.op = "get_snap_types_from_task_id" /\ rescall.res.err = "none") =>
        /\ \A i, j \in DOMAIN rescall.res.val :
              rescall.res.val[i] = rescall.res.val[j] => i = j
        /\ (/\ ResolvedTask["kind"] \notin TASKS_IGNORE_SNAP_TYPE
            /\ "data" \in DOMAIN ResolvedTask
            /\ FirstShape(ResolvedTask["data"]) = 6) =>
               Range(rescall.res.val) =
                   { GetSnapType(rescall.st, ResolvedTask["data"]["plug"]["snap"]),
                     GetSnapType(rescall.st, ResolvedTask["data"]["slot"]["snap"]) }

\* C27: every resolution ends with a collection or with the not-found error,
\* whatever the references between the tasks are: it never recurses without
\* end.
C27_ResolutionTerminates ==
    rescall.op = "get_snap_types_from_task_id" =>
        rescall.res.err \in {"none", "NotInStateError"}

---------------------------------------------------------------------------
\* query_features.py: find_feat

\* get_feature_name_from_feature; '' when the feature is not recognized
GetFeatureNameFromFeature(feat) ==
    LET len == Cardinality(DOMAIN feat)
    IN IF "cmd" \in DOMAIN feat /\ len = 1 THEN "cmds"
       ELSE IF "method" \in DOMAIN feat /\ "path" \in DOMAIN feat /\ (len = 2 \/ len = 3)
            THEN "endpoints"
       ELSE IF "manager" \in DOMAIN feat /\ "function" \in DOMAIN feat /\ len = 2
            THEN "ensures"
       ELSE IF "kind" \in DOMAIN feat /\ "last_status" \in DOMAIN feat THEN "tasks"
       ELSE IF "name" \in DOMAIN feat THEN "interfaces"
       ELSE IF "kind" \in DOMAIN feat THEN "changes"
       ELSE ""

\* feat_in_test(test), for the feature feat of kind feat_name
FeatInTest(feat_name, feat, test) ==
    /\ feat_name \in DOMAIN test
    /\ CASE feat_name \in {"cmds", "ensures", "endpoints"} ->
                feat \in Range(test[feat_name])
         [] feat_name = "tasks" ->
                \E i \in DOMAIN test["tasks"] :
                    /\ test["tasks"][i]["kind"] = feat["kind"]
                    /\ test["tasks"][i]["last_status"] = feat["last_status"]
         [] feat_name = "changes" ->
                \E i \in DOMAIN test["changes"] : test["changes"][i]["kind"] = feat["kind"]
         [] feat_name = "interfaces" ->
                \E i \in DOMAIN test["interfaces"] :
                    test["interfaces"][i]["name"] = feat["name"]
         [] OTHER -> FALSE

\* the tests of system_json that find_feat lists
FoundTests(system_json, feat_name, feat, remove_failed) ==
    LET found == SelectSeq(system_json["tests"], LAMBDA test :
                     FeatInTest(feat_name, feat, test)
                     /\ (~ remove_failed \/ test["success"]))
    IN [i \in DOMAIN found |-> IdOf(found[i])]

\* the loop "for system_json in system_jsons": ret, a dict on system names
RECURSIVE FoundIn(_, _, _, _, _)
FoundIn(ret, system_jsons, feat_name, feat, remove_failed) ==
    IF system_jsons = <<>> THEN ret
    ELSE LET system_json == Head(system_jsons)
             tests == FoundTests(system_json, feat_name, feat, remove_failed)
         IN FoundIn(IF tests # <<>>
                    THEN (system_json["system"] :> tests) @@ Del(ret, {system_json["system"]})
                    ELSE ret,
                    Tail(system_jsons), feat_name, feat, remove_failed)

\* find_feat; systems is what retriever.get_systems gave: [err, val]
FindFeat(systems, feat, remove_failed) ==
    LET feat_name == GetFeatureNameFromFeature(feat)
    IN IF feat_name = "" THEN Raised("RuntimeError")
       ELSE IF systems.err # "none" THEN Raised(systems.err)
       ELSE Returned(FoundIn(<<>>, systems.val, feat_name, feat, remove_failed))

---------------------------------------------------------------------------
\* The two backends over the same documents: a MongoRetriever on
\* `collection` and a DirRetriever on `dirFiles`, each with its own cache
\* (cache.mongo, cache.dir). The queries of query_features.py are made on
\* both, after any calls on either.

\* a stored document: the timestamp it is stored under and what json.load
\* gives for its file; name is the system, or "" for the all-features one
Stored(timestamp, name, json) == [ts |-> timestamp, name |-> name, json |-> json]

StoredPool ==
    << Stored(TS1, "a", SystemJson("a",
           <<QTest(K1, TRUE, [cmds |-> <<CmdX>>]),
             QTest(K3, FALSE, [cmds |-> <<CmdX, CmdY>>, changes |-> <<ChangeC>>])>>)),
       Stored(TS1, "b", SystemJson("b", <<QTest(K1, TRUE, [cmds |-> <<CmdY>>])>>)),
       Stored(TS1, "", AllFeaturesFull),
       Stored(TS2, "a", SystemJson("a", <<QTest(K2, TRUE, [cmds |-> <<CmdX>>])>>)) >>

\* the document as snapd.features holds it
MongoDocument(d) ==
    IF d.name = ""
    THEN d.json @@ [timestamp |-> FromIsoFormat(d.ts), all_features |-> TRUE]
    ELSE d.json @@ [timestamp |-> FromIsoFormat(d.ts)]

\* the document as <dir>/<timestamp>/<system>.json or all-features.json
DirFile(d) ==
    File(d.ts, IF d.name = "" THEN ALL_FEATURES_FILE ELSE <<d.name, JSON>>, d.json)

InitBackends ==
    /\ ReplaceIdle
    /\ ExtractIdle
    /\ QueryIdle
    /\ rkind = "both"
    /\ \E S \in SUBSET DOMAIN StoredPool :
          LET docs == SelectSeq(StoredPool, LAMBDA d : \E i \in S : StoredPool[i] = d)
          IN /\ collection = [i \in DOMAIN docs |-> MongoDocument(docs[i])]
             /\ dirFiles = Reverse([i \in DOMAIN docs |-> DirFile(docs[i])])
    /\ cache = [mongo |-> <<>>, dir |-> <<>>]
    /\ rcall = NoCall
    /\ scans = <<>>
    /\ ncalls = 0

BackendKinds == {"mongo", "dir"}

\* the retriever calls of the queries, on the instance of class kind
SingleJsonOn(kind, timestamp, system) ==
    SingleJsonResult(cache[kind], kind, collection, dirFiles, timestamp, system)
SystemsOn(kind, timestamp, systems) ==
    SystemsResult(cache[kind], kind, collection, dirFiles, timestamp, systems)
AllFeaturesOn(kind, timestamp) ==
    AllFeaturesResult(cache[kind], kind, collection, dirFiles, timestamp)

\* dup(retriever, timestamp, system, remove_failed)
DupOn(kind, timestamp, system, remove_failed) ==
    LET system_json == SingleJsonOn(kind, timestamp, system)
    IN IF system_json.err # "none" THEN Raised(system_json.err)
       ELSE Returned(Dup(system_json.val, remove_failed))

\* feat_sys(retriever, timestamp, system, remove_failed)
FeatSysOn(kind, timestamp, system, remove_failed) ==
    LET system_json == SingleJsonOn(kind, timestamp, system)
    IN IF system_json.err # "none" THEN Raised(system_json.err)
       ELSE Returned(FeatSys(system_json.val, remove_failed, "", "", ""))

\* diff(retriever, timestamp1, system1, timestamp2, system2, ...)
DiffOn(kind, timestamp1, system1, timestamp2, system2, remove_failed, only_same) ==
    LET system_json1 == SingleJsonOn(kind, timestamp1, system1)
        system_json2 == SingleJsonOn(kind, timestamp2, system2)
    IN IF system_json1.err # "none" THEN Raised(system_json1.err)
       ELSE IF system_json2.err # "none" THEN Raised(system_json2.err)
       ELSE Returned(Diff(system_json1.val, system_json2.val, remove_failed, only_same))

\* diff_all_features(retriever, timestamp, system, remove_failed)
DiffAllOn(kind, timestamp, system, remove_failed) ==
    LET system_json == SingleJsonOn(kind, timestamp, system)
        all_features == AllFeaturesOn(kind, timestamp)
    IN IF system_json.err # "none" THEN Raised(system_json.err)
       ELSE IF all_features.err # "none" THEN Raised(all_features.err)
       ELSE DiffAllFeatures(system_json.val, all_features.val, remove_failed)

\* self.cache of the instance after diff_all_features
CacheAfterDiffAll(kind, timestamp, system) ==
    IF SingleJsonOn(kind, timestamp, system).err # "none" THEN cache[kind]
    ELSE CacheAfterGetAllFeatures(cache[kind], timestamp, AllFeaturesOn(kind, timestamp))

\* system_list of find_feat: None, or [system]
SystemList(system) == IF system = "" THEN <<>> ELSE <<system>>

\* find_feat(retriever, timestamp, feat, remove_failed, system)
FindFeatOn(kind, timestamp, feat, remove_failed, system) ==
    FindFeat(SystemsOn(kind, timestamp, SystemList(system)), feat, remove_failed)

\* self.cache of the instance after find_feat
CacheAfterFindFeat(kind, timestamp, feat, system) ==
    IF GetFeatureNameFromFeature(feat) = "" THEN cache[kind]
    ELSE CacheAfterGetSystems(cache[kind], timestamp, SystemList(system),
                              SystemsOn(kind, timestamp, SystemList(system)))

\* the features asked for: one of a kind, and one of no kind
AskedFeatures == {CmdX, [kind |-> "c"], [nothing |-> "x"]}

\* an earlier get_systems on one of the instances
WarmSystems ==
    /\ rkind = "both" /\ qcall = NoQuery
    /\ \E kind \in BackendKinds, timestamp \in Timestamps, systems \in Filters :
          cache' = [cache EXCEPT ![kind] =
                       CacheAfterGetSystems(@, timestamp, systems,
                                            SystemsOn(kind, timestamp, systems))]
    /\ UNCHANGED <<rkind, collection, dirFiles, rcall, scans, ncalls>>
    /\ UNCHANGED <<replaceVars, extractVars, queryVars>>

\* an earlier get_all_features on one of the instances
WarmAllFeatures ==
    /\ rkind = "both" /\ qcall = NoQuery
    /\ \E kind \in BackendKinds, timestamp \in Timestamps :
          cache' = [cache EXCEPT ![kind] =
                       CacheAfterGetAllFeatures(@, timestamp, AllFeaturesOn(kind, timestamp))]
    /\ UNCHANGED <<rkind, collection, dirFiles, rcall, scans, ncalls>>
    /\ UNCHANGED <<replaceVars, extractVars, queryVars>>

DupOnBoth ==
    /\ rkind = "both" /\ qcall = NoQuery
    /\ \E timestamp \in Timestamps, system \in Systems, remove_failed \in BOOLEAN :
          qcall' = [op |-> "dup", ts |-> timestamp, system |-> system,
                    remove_failed |-> remove_failed,
                    mongo |-> DupOn("mongo", timestamp, system, remove_failed),
                    dir |-> DupOn("dir", timestamp, system, remove_failed)]
    /\ UNCHANGED <<rescall, retrieverVars, replaceVars, extractVars>>

FeatSysOnBoth ==
    /\ rkind = "both" /\ qcall = NoQuery
    /\ \E timestamp \in Timestamps, system \in Systems, remove_failed \in BOOLEAN :
          qcall' = [op |-> "feat_sys", ts |-> timestamp, system |-> system,
                    remove_failed |-> remove_failed,
                    mongo |-> FeatSysOn("mongo", timestamp, system, remove_failed),
                    dir |-> FeatSysOn("dir", timestamp, system, remove_failed)]
    /\ UNCHANGED <<rescall, retrieverVars, replaceVars, extractVars>>

DiffOnBoth ==
    /\ rkind = "both" /\ qcall = NoQuery
    /\ \E timestamp1 \in Timestamps, system1 \in Systems, system2 \in Systems,
          remove_failed \in BOOLEAN, only_same \in BOOLEAN :
          qcall' = [op |-> "diff", ts |-> timestamp1, system |-> system1,
                    system2 |-> system2, remove_failed |-> remove_failed,
                    only_same |-> only_same,
                    mongo |-> DiffOn("mongo", timestamp1, system1, TS1, system2,
                                     remove_failed, only_same),
                    dir |-> DiffOn("dir", timestamp1, system1, TS1, system2,
                                   remove_failed, only_same)]
    /\ UNCHANGED <<rescall, retrieverVars, replaceVars, extractVars>>

DiffAllOnBoth ==
    /\ rkind = "both" /\ qcall = NoQuery
    /\ \E timestamp \in Timestamps, system \in Systems, remove_failed \in BOOLEAN :
          /\ qcall' = [op |-> "diff_all_features", ts |-> timestamp, system |-> system,
                       remove_failed |-> remove_failed,
                       mongo |-> DiffAllOn("mongo", timestamp, system, remove_failed),
                       dir |-> DiffAllOn("dir", timestamp, system, remove_failed)]
          /\ cache' = [kind \in BackendKinds |-> CacheAfterDiffAll(kind, timestamp, system)]
    /\ UNCHANGED <<rkind, collection, dirFiles, rcall, scans, ncalls>>
    /\ UNCHANGED <<rescall, replaceVars, extractVars>>

FindFeatOnBoth ==
    /\ rkind = "both" /\ qcall = NoQuery
    /\ \E timestamp \in Timestamps, feat \in AskedFeatures, remove_failed \in BOOLEAN,
          system \in Systems \cup {""} :
          /\ qcall' = [op |-> "find_feat", ts |-> timestamp, system |-> system,
                       feat |-> feat, remove_failed |-> remove_failed,
                       mongo |-> FindFeatOn("mongo", timestamp, feat, remove_failed, system),
                       dir |-> FindFeatOn("dir", timestamp, feat, remove_failed, system)]
          /\ cache' = [kind \in BackendKinds |->
                          CacheAfterFindFeat(kind, timestamp, feat, system)]
    /\ UNCHANGED <<rkind, collection, dirFiles, rcall, scans, ncalls>>
    /\ UNCHANGED <<rescall, replaceVars, extractVars>>

NextBackends ==
    \/ WarmSystems \/ WarmAllFeatures
    \/ DupOnBoth \/ FeatSysOnBoth \/ DiffOnBoth \/ DiffAllOnBoth \/ FindFeatOnBoth

SpecBackends == InitBackends /\ [][NextBackends]_vars

\* C25: every query made on both instances gives the same on both: the same
\* value, or an exception on both.
C25_BackendsInterchangeable ==
    qcall.op \in {"dup", "feat_sys", "diff", "diff_all_features", "find_feat"} =>
        qcall.mongo = qcall.dir

\* the timestamps the backends hold a document under
StoredTimestamps == {dirFiles[i].dir : i \in DOMAIN dirFiles}

---------------------------------------------------------------------------
\* find_feat on reports whose tests hold the features as featextractor.py
\* writes them

\* the records of the extractor, after cleanup_dict: Cmd, Endpoint without
\* and with action, Interface, Ensure, Task (without id), Change
ExtractedOptions ==
    { [cmds |-> <<CmdY, CmdX>>, endpoints |-> <<EndpointP, EndpointP @@ [action |-> "a"]>>],
      [interfaces |-> <<InterfaceI>>, tasks |-> <<TaskFeat("k1", "Done", <<"app">>),
                                                  TaskFeat("k1", "Doing", <<>>)>>,
       changes |-> <<ChangeC>>],
      [ensures |-> <<[manager |-> "m", functions |-> <<"f">>]>>, changes |-> <<>>],
      [ensures |-> <<[manager |-> "m", functions |-> <<>>]>>, cmds |-> <<CmdX>>] }

\* the reports of system a: a test for each of one or two keys
FindDocuments ==
    {SystemJson("a", <<QTest(K1, ok, f)>>) : ok \in BOOLEAN, f \in ExtractedOptions}
    \cup {SystemJson("a", <<QTest(K1, ok1, f1), QTest(K3, ok2, f2)>>) :
             ok1 \in BOOLEAN, ok2 \in BOOLEAN, f1 \in ExtractedOptions, f2 \in ExtractedOptions}

\* the report of system b of the same timestamp
OtherDocument == SystemJson("b", <<QTest(K1, TRUE, [cmds |-> <<CmdX>>])>>)

\* query_features.py feat find -t <timestamp> --feat <json> [--remove-failed],
\* for a feature stored in test number i of the report of system a
FindFeatCall ==
    /\ qcall = NoQuery
    /\ \E system_json \in FindDocuments, remove_failed \in BOOLEAN :
         \E i \in DOMAIN system_json["tests"] :
           \E kind \in Range(KNOWN_FEATURES) \cap DOMAIN system_json["tests"][i] :
             \E j \in DOMAIN system_json["tests"][i][kind] :
                LET feat == system_json["tests"][i][kind][j]
                IN qcall' = [op |-> "find_feat", system_json |-> system_json,
                             test |-> system_json["tests"][i], kind |-> kind,
                             feat |-> feat, remove_failed |-> remove_failed,
                             res |-> FindFeat(Returned(<<OtherDocument, system_json>>),
                                              feat, remove_failed)]
    /\ UNCHANGED rescall
    /\ UNCHANGED <<replaceVars, extractVars, retrieverVars>>

\* C30: find_feat, without remove_failed, of a feature stored in a test as
\* the extractor wrote it classifies the feature into the kind it is stored
\* under, raises nothing, and lists the test under the test's system.
C30_StoredFeatureIsFound ==
    (qcall.op = "find_feat" /\ ~ qcall.remove_failed) =>
        /\ GetFeatureNameFromFeature(qcall.feat) = qcall.kind
        /\ qcall.res.err = "none"
        /\ qcall.system_json["system"] \in DOMAIN qcall.res.val
        /\ IdOf(qcall.test) \in Range(qcall.res.val[qcall.system_json["system"]])

---------------------------------------------------------------------------
\* One run of query_features.py makes one query.

NextQuery == DupCall \/ DiffCall \/ MinusCall \/ DiffAllCall \/ FindFeatCall

SpecQuery == InitQuery /\ [][NextQuery]_vars

=============================================================================
